---- MODULE Spec2Model ----
(***************************************************************************)
(* Hours accrual and approval workflow of the SRISH clinical-training      *)
(* server: attendance check-in / check-out and the completedHours ledger,  *)
(* leave requests with their overlap validation and review, and clinical   *)
(* cases with their supervisor approval.                                    *)
(*                                                                         *)
(* Every HTTP handler is modelled as the sequence of its database round    *)
(* trips: each `await` of the handler is one step, and the handler's       *)
(* position between two steps is kept in inflight[r].  The synchronous     *)
(* code between two awaits belongs to the step that follows it.            *)
(*                                                                         *)
(* Units: the clock counts minutes; a duration in hours is kept as the     *)
(* number of minutes it is worth (hours * 60), so that                     *)
(* diffMs / 3600000 - breakDuration / 60 is (timeOut - timeIn) - break.    *)
(***************************************************************************)
EXTENDS Integers, Sequences, FiniteSets, TLC

VARIABLES
    now,             \* wall clock, new Date()
    completedHours,  \* User.completedHours of every student
    attendance,      \* the Attendance collection, in insertion order
    leaveRequests,   \* the LeaveRequest collection, in insertion order
    clinicalCases,   \* the ClinicalCase collection, in insertion order
    inflight,        \* per request slot: the handler in progress and its locals
    resp             \* the response to the request that ended last, none once a
                     \* later request is being handled

vars == <<now, completedHours, attendance, leaveRequests, clinicalCases, inflight, resp>>

----------------------------------------------------------------------------
\* Bounds of the model

MaxTime == 3        \* the clock stops here
DayLen == 2         \* minutes in a calendar day of the model
MaxBreak == 2       \* largest breakDuration a request carries
MaxSessions == 2    \* attendance documents
MaxLeaves == 2      \* leave request documents
MaxDay == 2         \* leave dates are the days 1..MaxDay
MaxCases == 2       \* clinical case documents
OneDoc == 1         \* documents in the specifications of a single document

----------------------------------------------------------------------------
\* Actors

Students == {"s1", "s2"}
Supervisors == {"p1"}
Admins == {"a1"}
Users == Students \cup Supervisors \cup Admins
NoUser == "none"

role(u) == IF u \in Students THEN "Student"
           ELSE IF u \in Supervisors THEN "Supervisor" ELSE "Admin"

\* authorize(...roles): the route lets the actor through
authorize(roles, u) == role(u) \in roles

\* req.user.supervisor, the supervisor of record of a student
supervisorOf(u) == IF u = "s1" THEN "p1" ELSE NoUser

Slots == {"r1", "r2"}
NoTime == -1        \* a Date field that is unset (null / undefined)
NoId == 0           \* no document

Idle == [op |-> "idle"]
NoResp == [op |-> "none", actor |-> NoUser, status |-> 0, id |-> NoId, ids |-> {},
           n |-> 0, msg |-> "absent"]

Respond(r, op, actor, status, id, n) ==
    resp' = [op |-> op, actor |-> actor, status |-> status, id |-> id, ids |-> {},
             n |-> n, msg |-> "absent"]

\* the answer to a request that names a set of documents; msg is the status the
\* message of a 200 answer names
RespondBulk(r, op, actor, status, ids, n, msg) ==
    resp' = [op |-> op, actor |-> actor, status |-> status, id |-> NoId, ids |-> ids,
             n |-> n, msg |-> msg]

\* the 500 answer of a catch block: error.message names what was thrown
RespondError(r, op, actor, id, msg) ==
    resp' = [op |-> op, actor |-> actor, status |-> 500, id |-> id, ids |-> {},
             n |-> 0, msg |-> msg]

\* an answer whose body carries a message
RespondMessage(r, op, actor, status, id, msg) ==
    resp' = [op |-> op, actor |-> actor, status |-> status, id |-> id, ids |-> {},
             n |-> 0, msg |-> msg]

Max(a, b) == IF a >= b THEN a ELSE b

----------------------------------------------------------------------------
\* Attendance model

\* today.setHours(0, 0, 0, 0)
Today(t) == (t \div DayLen) * DayLen

\* the virtual totalHours of a session document
totalHoursNoClamp(timeIn, timeOut, breakDuration) ==
    IF timeIn = NoTime \/ timeOut = NoTime THEN 0
    ELSE (timeOut - timeIn) - breakDuration

totalHours(timeIn, timeOut, breakDuration) ==
    IF timeIn = NoTime \/ timeOut = NoTime THEN 0
    ELSE Max(0, (timeOut - timeIn) - breakDuration)

\* the lookup without its date window
ActiveSessionsAnyDate(student, today) ==
    {i \in 1..Len(attendance) :
        attendance[i].student = student /\ attendance[i].timeOut = NoTime}

\* Attendance.findOne({student, date: {$gte: today, $lt: today + 24h}, timeOut: null})
ActiveSessions(student, today) ==
    {i \in 1..Len(attendance) :
        /\ attendance[i].student = student
        /\ attendance[i].date >= today
        /\ attendance[i].date < today + DayLen
        /\ attendance[i].timeOut = NoTime}

FirstOf(S) == CHOOSE i \in S : \A j \in S : i <= j

\* a collection without the unique index
DuplicateKeyNever(student, date) == FALSE

\* the unique index {student: 1, date: 1}
DuplicateKey(student, date) ==
    \E i \in 1..Len(attendance) :
        attendance[i].student = student /\ attendance[i].date = date

\* a schema without the pre-save hook
PreSaveRejectsNever(timeIn, timeOut) == FALSE

\* AttendanceSchema.pre('save'): the first next(error) decides
PreSaveRejects(timeIn, timeOut) ==
    timeOut # NoTime /\ timeIn # NoTime /\ timeOut <= timeIn

----------------------------------------------------------------------------
\* Initial state: empty collections, nobody has accrued hours

Init ==
    /\ now = 0
    /\ completedHours = [s \in Students |-> 0]
    /\ attendance = <<>>
    /\ leaveRequests = <<>>
    /\ clinicalCases = <<>>
    /\ inflight = [r \in Slots |-> Idle]
    /\ resp = NoResp

\* time passes
Tick ==
    /\ now < MaxTime
    /\ now' = now + 1
    /\ UNCHANGED <<completedHours, attendance, leaveRequests, clinicalCases, inflight, resp>>

\* the database call a handler is waiting for throws: the handler's catch answers 500
StorageFailure(r) ==
    /\ inflight[r].op # "idle"
    /\ inflight' = [inflight EXCEPT ![r] = Idle]
    /\ Respond(r, inflight[r].op, inflight[r].actor, 500, NoId, 0)
    /\ UNCHANGED <<now, completedHours, attendance, leaveRequests, clinicalCases>>

----------------------------------------------------------------------------
\* POST /api/attendance/check-in

\* lines 12-30: today, the active-session lookup, the 400 answer
checkInFind(r, s) ==
    /\ inflight[r].op = "idle"
    /\ authorize({"Student"}, s)
    /\ LET today == Today(now) IN
       IF ActiveSessions(s, today) # {}
       THEN /\ Respond(r, "checkIn", s, 400, FirstOf(ActiveSessions(s, today)), 0)
            /\ UNCHANGED inflight
       ELSE /\ inflight' = [inflight EXCEPT ![r] =
                              [op |-> "checkIn", pc |-> "create", actor |-> s, today |-> today]]
            /\ resp' = NoResp
    /\ UNCHANGED <<now, completedHours, attendance, leaveRequests, clinicalCases>>

\* lines 32-51: Attendance.create under the unique index, 201 or the catch's 500
checkInCreate(r) ==
    /\ inflight[r].op = "checkIn"
    /\ inflight[r].pc = "create"
    /\ LET s == inflight[r].actor
           today == inflight[r].today IN
       IF DuplicateKey(s, today)
       THEN /\ RespondError(r, "checkIn", s, NoId, "E11000 duplicate key")
            /\ UNCHANGED attendance
       ELSE /\ Len(attendance) < MaxSessions
            /\ attendance' = Append(attendance,
                  [student |-> s, date |-> today, timeIn |-> now, timeOut |-> NoTime,
                   breakDuration |-> 0, supervisor |-> supervisorOf(s),
                   supervisorVerified |-> FALSE, verifiedAt |-> NoTime])
            /\ Respond(r, "checkIn", s, 201, Len(attendance) + 1, 0)
    /\ inflight' = [inflight EXCEPT ![r] = Idle]
    /\ UNCHANGED <<now, completedHours, leaveRequests, clinicalCases>>

----------------------------------------------------------------------------
\* PUT /api/attendance/check-out

BreakInputs == (-1)..MaxBreak

\* lines 59-77: today, the active-session lookup, the 404 answer
checkOutFind(r, s, brk) ==
    /\ inflight[r].op = "idle"
    /\ authorize({"Student"}, s)
    /\ LET today == Today(now) IN
       IF ActiveSessions(s, today) = {}
       THEN /\ Respond(r, "checkOut", s, 404, NoId, 0)
            /\ UNCHANGED inflight
       ELSE LET id == FirstOf(ActiveSessions(s, today)) IN
            /\ inflight' = [inflight EXCEPT ![r] =
                              [op |-> "checkOut", pc |-> "save", actor |-> s, id |-> id,
                               timeIn |-> attendance[id].timeIn,
                               loadedBreak |-> attendance[id].breakDuration,
                               breakDuration |-> brk, timeOut |-> NoTime]]
            /\ resp' = NoResp
    /\ UNCHANGED <<now, completedHours, attendance, leaveRequests, clinicalCases>>

\* lines 79-94: timeOut = new Date(), the break, validation, the pre-save hook and
\* the update of the modified paths
checkOutSave(r) ==
    /\ inflight[r].op = "checkOut"
    /\ inflight[r].pc = "save"
    /\ LET q == inflight[r]
           id == q.id IN
       IF q.breakDuration < 0 \/ PreSaveRejects(q.timeIn, now)
       THEN /\ RespondError(r, "checkOut", q.actor, id,
                  IF q.breakDuration < 0 THEN "Break duration cannot be negative"
                  ELSE "Check-out time must be after check-in time")
            /\ inflight' = [inflight EXCEPT ![r] = Idle]
            /\ UNCHANGED attendance
       ELSE /\ attendance' = [attendance EXCEPT
                  ![id].timeOut = now,
                  ![id].breakDuration =
                      IF q.breakDuration # q.loadedBreak THEN q.breakDuration ELSE @]
            /\ inflight' = [inflight EXCEPT ![r].pc = "inc", ![r].timeOut = now]
            /\ UNCHANGED resp
    /\ UNCHANGED <<now, completedHours, leaveRequests, clinicalCases>>

\* lines 96-108: User.findByIdAndUpdate $inc completedHours by attendance.totalHours
checkOutInc(r) ==
    /\ inflight[r].op = "checkOut"
    /\ inflight[r].pc = "inc"
    /\ LET q == inflight[r]
           hours == totalHours(q.timeIn, q.timeOut, q.breakDuration) IN
       /\ completedHours' = [completedHours EXCEPT ![q.actor] = @ + hours]
       /\ Respond(r, "checkOut", q.actor, 200, q.id, hours)
    /\ inflight' = [inflight EXCEPT ![r] = Idle]
    /\ UNCHANGED <<now, attendance, leaveRequests, clinicalCases>>

----------------------------------------------------------------------------
\* PUT /api/attendance/:id/verify

verifyAttendance(r, u, id) ==
    /\ inflight[r].op = "idle"
    /\ IF ~authorize({"Supervisor", "Admin"}, u)
       THEN /\ UNCHANGED attendance
            /\ Respond(r, "verifyAttendance", u, 403, id, 0)
       ELSE IF id \in 1..Len(attendance)
       THEN /\ attendance' = [attendance EXCEPT
                  ![id].supervisorVerified = TRUE,
                  ![id].verifiedAt = now,
                  ![id].supervisor = u]
            /\ Respond(r, "verifyAttendance", u, 200, id, 0)
       ELSE /\ UNCHANGED attendance
            /\ Respond(r, "verifyAttendance", u, 404, id, 0)
    /\ UNCHANGED <<now, completedHours, leaveRequests, clinicalCases, inflight>>

----------------------------------------------------------------------------
\* The attendance requests, one at a time (SpecAttendance) or two interleaved

AttendanceStep(r) ==
    \/ \E s \in Students : checkInFind(r, s)
    \/ checkInCreate(r)
    \/ \E s \in Students, brk \in BreakInputs : checkOutFind(r, s, brk)
    \/ checkOutSave(r)
    \/ checkOutInc(r)
    \/ StorageFailure(r)

NextAttendance == Tick \/ AttendanceStep("r1")

SpecAttendance == Init /\ [][NextAttendance]_vars

\* the requests of one student on two connections, interleaved at every await
RaceStep(r) ==
    \/ checkInFind(r, "s1")
    \/ checkInCreate(r)
    \/ \E brk \in {0, MaxBreak} : checkOutFind(r, "s1", brk)
    \/ checkOutSave(r)
    \/ checkOutInc(r)
    \/ StorageFailure(r)

NextAttendanceRace == Tick \/ \E r \in Slots : RaceStep(r)

SpecAttendanceRace == Init /\ [][NextAttendanceRace]_vars

\* the sessions of one student and their verification by every actor
NextVerify ==
    \/ Tick
    \/ RaceStep("r1")
    \/ \E u \in Users, id \in 1..MaxSessions : verifyAttendance("r1", u, id)

SpecVerify == Init /\ [][NextVerify]_vars

----------------------------------------------------------------------------
\* Claims about the attendance ledger

OpenSessions(s) ==
    {i \in 1..Len(attendance) : attendance[i].student = s /\ attendance[i].timeOut = NoTime}

ClosedSessions(s) ==
    {i \in 1..Len(attendance) : attendance[i].student = s /\ attendance[i].timeOut # NoTime}

\* C1: every student has at most one attendance session whose timeOut is null,
\* in every reachable state and across calendar-day changes.
C1_AtMostOneOpenSession ==
    \A s \in Students : Cardinality(OpenSessions(s)) <= 1

\* a checkOut request of slot r answers 200 in this step
CheckOutSucceeds(r) ==
    /\ inflight[r].op = "checkOut"
    /\ inflight'[r].op = "idle"
    /\ resp'.op = "checkOut"
    /\ resp'.status = 200

\* C3: a successful checkOut adds exactly max(0, (timeOut - timeIn) - breakDuration)
\* of the session it closed to the caller's completedHours and leaves every other
\* user's completedHours as it was.
C3_CheckOutAccruesNetHours ==
    [][\A r \in Slots : CheckOutSucceeds(r) =>
          LET s == inflight[r].actor
              ses == attendance[inflight[r].id] IN
          /\ ses.student = s
          /\ ses.timeOut # NoTime
          /\ completedHours'[s] = completedHours[s]
                + (IF (ses.timeOut - ses.timeIn) - ses.breakDuration > 0
                   THEN (ses.timeOut - ses.timeIn) - ses.breakDuration ELSE 0)
          /\ \A u \in Students \ {s} : completedHours'[u] = completedHours[u]]_vars

\* a checkOut has just answered 200 for a session whose break exceeds its elapsed
\* time, by a student who had accrued hours before
C3_Witness ==
    /\ resp.op = "checkOut"
    /\ resp.status = 200
    /\ resp.n = 0
    /\ completedHours[resp.actor] > 0
    /\ attendance[resp.id].breakDuration
          > attendance[resp.id].timeOut - attendance[resp.id].timeIn

RECURSIVE SumClosedHours(_, _)
SumClosedHours(s, n) ==
    IF n = 0 THEN 0
    ELSE SumClosedHours(s, n - 1)
         + (IF attendance[n].student = s /\ attendance[n].timeOut # NoTime
            THEN Max(0, (attendance[n].timeOut - attendance[n].timeIn)
                          - attendance[n].breakDuration)
            ELSE 0)

CheckOutInFlight(s) ==
    \E r \in Slots : inflight[r].op = "checkOut" /\ inflight[r].actor = s

\* C4: once a student's checkOut request has ended, whatever its answer, no closed
\* session of that student has net hours that are missing from completedHours.
C4_NoUnaccountedClosedSession ==
    \A s \in Students :
        ~CheckOutInFlight(s) => completedHours[s] >= SumClosedHours(s, Len(attendance))

\* a checkIn of slot r creates a session in this step
CheckInCreates(r) ==
    inflight[r].op = "checkIn" /\ Len(attendance') = Len(attendance) + 1

\* C11: a checkIn by a student who has an open session on any date, today or an
\* earlier day, creates no session.
C11_CheckInRejectsOpenSession ==
    [][\A r \in Slots :
          CheckInCreates(r) => OpenSessions(inflight[r].actor) = {}]_vars

\* the checkIn of slot r ends in this step, and the answer before it is the 201 of
\* another checkIn of the same student: both had passed the open-session lookup
RacedCheckInEnds(r) ==
    /\ inflight[r].op = "checkIn"
    /\ inflight'[r].op = "idle"
    /\ resp.op = "checkIn"
    /\ resp.status = 201
    /\ resp.actor = inflight[r].actor

\* C12: of two concurrent checkIns of a student that both passed the open-session
\* lookup, at most one creates a session and the other is rejected.
C12_ConcurrentCheckInOneWinner ==
    [][\A r \in Slots :
          RacedCheckInEnds(r) => (attendance' = attendance /\ resp'.status # 201)]_vars

\* C13: there is at most one attendance session per student and calendar date, in
\* every reachable state and whether the earlier session is open or closed.
C13_OneSessionPerStudentAndDate ==
    \A i, j \in 1..Len(attendance) :
        (attendance[i].student = attendance[j].student
         /\ attendance[i].date = attendance[j].date) => i = j

\* a checkIn on a day whose session is already closed has just been refused by the
\* unique index
C13_Witness ==
    /\ resp.op = "checkIn"
    /\ resp.msg = "E11000 duplicate key"
    /\ \E i \in ClosedSessions(resp.actor) : attendance[i].date = Today(now)
    /\ Cardinality(ClosedSessions(resp.actor) \cup OpenSessions(resp.actor)) = 1

\* the open sessions of a student that are dated today
OpenSessionsToday(s) ==
    {i \in OpenSessions(s) : attendance[i].date \div DayLen = now \div DayLen}

\* C14: a checkOut goes on to close a session only if the student has an open
\* session dated today; otherwise it answers 404, and the 404 leaves every session
\* and every user's completedHours as they were.
C14_CheckOutWithoutOpenSession ==
    [][/\ \A r \in Slots :
             (inflight[r].op = "idle" /\ inflight'[r].op = "checkOut")
             => OpenSessionsToday(inflight'[r].actor) # {}
       /\ (now' = now /\ inflight' = inflight /\ resp'.op = "checkOut")
             => /\ resp'.status = 404
                /\ OpenSessionsToday(resp'.actor) = {}
                /\ attendance' = attendance
                /\ completedHours' = completedHours]_vars

\* a checkOut has just been answered 404 although the student has an open session,
\* one of an earlier day
C14_Witness ==
    /\ resp.op = "checkOut"
    /\ resp.status = 404
    /\ OpenSessions(resp.actor) # {}
    /\ OpenSessionsToday(resp.actor) = {}

\* C15: every session with a timeOut has timeOut strictly after timeIn; a checkOut
\* at the check-in timestamp does not close the session.
C15_TimeOutAfterTimeIn ==
    \A i \in 1..Len(attendance) :
        attendance[i].timeOut # NoTime => attendance[i].timeOut > attendance[i].timeIn

\* a checkOut at the check-in timestamp has just been refused by the pre-save hook
\* and its session is still open
C15_Witness ==
    /\ resp.op = "checkOut"
    /\ resp.msg = "Check-out time must be after check-in time"
    /\ attendance[resp.id].timeOut = NoTime
    /\ attendance[resp.id].timeIn = now

\* C16: the hours of a session are accrued at most once: no student's
\* completedHours exceeds the net hours of the student's closed sessions.
C16_HoursAccruedAtMostOnce ==
    \A s \in Students : completedHours[s] <= SumClosedHours(s, Len(attendance))

\* C18: without an administrative correction every user's completedHours is
\* non-negative and never decreases, also when a break exceeds the elapsed time.
C18_CompletedHoursMonotone ==
    [][\A s \in Students :
          completedHours'[s] >= completedHours[s] /\ completedHours'[s] >= 0]_vars

\* a second checkOut of a student has just closed a session whose break exceeds
\* its elapsed time, and the hours accrued before are still there
C18_Witness ==
    /\ resp.op = "checkOut"
    /\ resp.status = 200
    /\ Cardinality(ClosedSessions(resp.actor)) = 2
    /\ attendance[resp.id].breakDuration
          > attendance[resp.id].timeOut - attendance[resp.id].timeIn
    /\ completedHours[resp.actor] > 0

----------------------------------------------------------------------------
\* Leave requests

LeaveStatuses == {"Pending", "Approved", "Rejected", "Cancelled"}
NoStatus == "absent"    \* the field is not in the request body
NoDay == 0              \* a date that is not in the request body
NoComments == "absent"  \* reviewComments is undefined
LeaveDays == 1..MaxDay

\* the overlap query without its status filter
hasOverlappingLeaveAnyStatus(studentId, startDate, endDate, excludeId) ==
    \E i \in 1..Len(leaveRequests) :
        /\ leaveRequests[i].student = studentId
        /\ leaveRequests[i].startDate <= endDate
        /\ leaveRequests[i].endDate >= startDate
        /\ (excludeId # NoId => i # excludeId)

\* the overlap query with strict comparisons: a shared boundary day is not seen
hasOverlappingLeaveExclusive(studentId, startDate, endDate, excludeId) ==
    \E i \in 1..Len(leaveRequests) :
        /\ leaveRequests[i].student = studentId
        /\ leaveRequests[i].status \in {"Pending", "Approved"}
        /\ leaveRequests[i].startDate < endDate
        /\ leaveRequests[i].endDate > startDate
        /\ (excludeId # NoId => i # excludeId)

\* LeaveRequest.hasOverlappingLeave(studentId, startDate, endDate, excludeId)
hasOverlappingLeave(studentId, startDate, endDate, excludeId) ==
    \E i \in 1..Len(leaveRequests) :
        /\ leaveRequests[i].student = studentId
        /\ leaveRequests[i].status \in {"Pending", "Approved"}
        /\ leaveRequests[i].startDate <= endDate
        /\ leaveRequests[i].endDate >= startDate
        /\ (excludeId # NoId => i # excludeId)

\* LeaveRequestSchema.pre('save'): the first next(error) decides
leavePreSaveRejects(startDate, endDate) == endDate < startDate

\* POST /api/leave-requests, lines 285-299: the overlap check and its 400 answer
createLeaveCheck(r, s, startDate, endDate) ==
    /\ inflight[r].op = "idle"
    /\ authorize({"Student"}, s)
    /\ IF hasOverlappingLeave(s, startDate, endDate, NoId)
       THEN /\ Respond(r, "createLeaveRequest", s, 400, NoId, 0)
            /\ UNCHANGED inflight
       ELSE /\ inflight' = [inflight EXCEPT ![r] =
                  [op |-> "createLeaveRequest", pc |-> "create", actor |-> s,
                   startDate |-> startDate, endDate |-> endDate]]
            /\ resp' = NoResp
    /\ UNCHANGED <<now, completedHours, attendance, leaveRequests, clinicalCases>>

\* lines 301-322: LeaveRequest.create with the pre-save hook, 201 or the catch's 500
createLeaveInsert(r, cap) ==
    /\ inflight[r].op = "createLeaveRequest"
    /\ LET q == inflight[r] IN
       IF leavePreSaveRejects(q.startDate, q.endDate)
       THEN /\ Respond(r, "createLeaveRequest", q.actor, 500, NoId, 0)
            /\ UNCHANGED leaveRequests
       ELSE /\ Len(leaveRequests) < cap
            /\ leaveRequests' = Append(leaveRequests,
                  [student |-> q.actor, startDate |-> q.startDate, endDate |-> q.endDate,
                   status |-> "Pending", reviewedBy |-> NoUser, reviewedAt |-> NoTime,
                   reviewComments |-> NoComments])
            /\ Respond(r, "createLeaveRequest", q.actor, 201, Len(leaveRequests) + 1, 0)
    /\ inflight' = [inflight EXCEPT ![r] = Idle]
    /\ UNCHANGED <<now, completedHours, attendance, clinicalCases>>

\* PUT /api/leave-requests/:id, lines 416-440: the lookup, ownership and Pending
\* guards of a Student; lines 443-449 decide whether the overlap check runs
updateLeaveFind(r, u, id, body) ==
    /\ inflight[r].op = "idle"
    /\ IF id \notin 1..Len(leaveRequests)
       THEN /\ Respond(r, "updateLeaveRequest", u, 404, id, 0)
            /\ UNCHANGED inflight
       ELSE LET lr == leaveRequests[id] IN
            IF role(u) = "Student" /\ lr.student # u
            THEN /\ Respond(r, "updateLeaveRequest", u, 403, id, 0)
                 /\ UNCHANGED inflight
            ELSE IF role(u) = "Student" /\ lr.status # "Pending"
            THEN /\ Respond(r, "updateLeaveRequest", u, 400, id, 0)
                 /\ UNCHANGED inflight
            ELSE /\ inflight' = [inflight EXCEPT ![r] =
                       [op |-> "updateLeaveRequest",
                        pc |-> IF body.startDate # NoDay \/ body.endDate # NoDay
                               THEN "overlap" ELSE "write",
                        actor |-> u, id |-> id, body |-> body,
                        student |-> lr.student,
                        startDate |-> lr.startDate, endDate |-> lr.endDate]]
                 /\ resp' = NoResp
    /\ UNCHANGED <<now, completedHours, attendance, leaveRequests, clinicalCases>>

\* the overlap check of an update without the excludeId argument
updateLeaveOverlapNoExclude(r) ==
    /\ inflight[r].op = "updateLeaveRequest"
    /\ inflight[r].pc = "overlap"
    /\ LET q == inflight[r]
           startDate == IF q.body.startDate # NoDay THEN q.body.startDate ELSE q.startDate
           endDate == IF q.body.endDate # NoDay THEN q.body.endDate ELSE q.endDate IN
       IF hasOverlappingLeave(q.student, startDate, endDate, NoId)
       THEN /\ Respond(r, "updateLeaveRequest", q.actor, 400, q.id, 0)
            /\ inflight' = [inflight EXCEPT ![r] = Idle]
       ELSE /\ inflight' = [inflight EXCEPT ![r].pc = "write"]
            /\ UNCHANGED resp
    /\ UNCHANGED <<now, completedHours, attendance, leaveRequests, clinicalCases>>

\* lines 443-457: the overlap check on the resulting range, excluding the request
updateLeaveOverlap(r) ==
    /\ inflight[r].op = "updateLeaveRequest"
    /\ inflight[r].pc = "overlap"
    /\ LET q == inflight[r]
           startDate == IF q.body.startDate # NoDay THEN q.body.startDate ELSE q.startDate
           endDate == IF q.body.endDate # NoDay THEN q.body.endDate ELSE q.endDate IN
       IF hasOverlappingLeave(q.student, startDate, endDate, q.id)
       THEN /\ Respond(r, "updateLeaveRequest", q.actor, 400, q.id, 0)
            /\ inflight' = [inflight EXCEPT ![r] = Idle]
       ELSE /\ inflight' = [inflight EXCEPT ![r].pc = "write"]
            /\ UNCHANGED resp
    /\ UNCHANGED <<now, completedHours, attendance, leaveRequests, clinicalCases>>

\* findByIdAndUpdate(id, req.body): every field of the body is written
applyLeaveBody(lr, body) ==
    [lr EXCEPT
        !.status = IF body.status # NoStatus THEN body.status ELSE @,
        !.startDate = IF body.startDate # NoDay THEN body.startDate ELSE @,
        !.endDate = IF body.endDate # NoDay THEN body.endDate ELSE @,
        !.reviewedBy = IF body.reviewedBy # NoUser THEN body.reviewedBy ELSE @,
        !.reviewComments = IF body.reviewComments # NoComments
                           THEN body.reviewComments ELSE @]

\* lines 459-474: LeaveRequest.findByIdAndUpdate(req.params.id, req.body)
updateLeaveWrite(r) ==
    /\ inflight[r].op = "updateLeaveRequest"
    /\ inflight[r].pc = "write"
    /\ LET q == inflight[r] IN
       /\ leaveRequests' = [leaveRequests EXCEPT ![q.id] = applyLeaveBody(@, q.body)]
       /\ Respond(r, "updateLeaveRequest", q.actor, 200, q.id, 0)
    /\ inflight' = [inflight EXCEPT ![r] = Idle]
    /\ UNCHANGED <<now, completedHours, attendance, clinicalCases>>

\* the first step of a cancellation without the status guard of lines 499-505
cancelLeaveFindNoStatusGuard(r, u, id) ==
    /\ inflight[r].op = "idle"
    /\ IF id \notin 1..Len(leaveRequests)
       THEN /\ Respond(r, "cancelLeaveRequest", u, 404, id, 0)
            /\ UNCHANGED inflight
       ELSE LET lr == leaveRequests[id] IN
            IF role(u) = "Student" /\ lr.student # u
            THEN /\ Respond(r, "cancelLeaveRequest", u, 403, id, 0)
                 /\ UNCHANGED inflight
            ELSE /\ inflight' = [inflight EXCEPT ![r] =
                       [op |-> "cancelLeaveRequest", pc |-> "save", actor |-> u, id |-> id,
                        startDate |-> lr.startDate, endDate |-> lr.endDate]]
                 /\ resp' = NoResp
    /\ UNCHANGED <<now, completedHours, attendance, leaveRequests, clinicalCases>>

\* PUT /api/leave-requests/:id/cancel, lines 482-505
cancelLeaveFind(r, u, id) ==
    /\ inflight[r].op = "idle"
    /\ IF id \notin 1..Len(leaveRequests)
       THEN /\ Respond(r, "cancelLeaveRequest", u, 404, id, 0)
            /\ UNCHANGED inflight
       ELSE LET lr == leaveRequests[id] IN
            IF role(u) = "Student" /\ lr.student # u
            THEN /\ Respond(r, "cancelLeaveRequest", u, 403, id, 0)
                 /\ UNCHANGED inflight
            ELSE IF lr.status \notin {"Pending", "Approved"}
            THEN /\ RespondMessage(r, "cancelLeaveRequest", u, 400, id,
                                   "Cannot cancel this leave request")
                 /\ UNCHANGED inflight
            ELSE /\ inflight' = [inflight EXCEPT ![r] =
                       [op |-> "cancelLeaveRequest", pc |-> "save", actor |-> u, id |-> id,
                        startDate |-> lr.startDate, endDate |-> lr.endDate]]
                 /\ resp' = NoResp
    /\ UNCHANGED <<now, completedHours, attendance, leaveRequests, clinicalCases>>

\* lines 507-520: status = 'Cancelled' and save(), which runs the pre-save hook on
\* the loaded document and writes the modified path
cancelLeaveSave(r) ==
    /\ inflight[r].op = "cancelLeaveRequest"
    /\ LET q == inflight[r] IN
       IF leavePreSaveRejects(q.startDate, q.endDate)
       THEN /\ Respond(r, "cancelLeaveRequest", q.actor, 500, q.id, 0)
            /\ UNCHANGED leaveRequests
       ELSE /\ leaveRequests' = [leaveRequests EXCEPT ![q.id].status = "Cancelled"]
            /\ Respond(r, "cancelLeaveRequest", q.actor, 200, q.id, 0)
    /\ inflight' = [inflight EXCEPT ![r] = Idle]
    /\ UNCHANGED <<now, completedHours, attendance, clinicalCases>>

\* the first step of a review without the Pending guard of lines 546-551
reviewLeaveFindNoPendingGuard(r, u, id, status, reviewComments) ==
    /\ inflight[r].op = "idle"
    /\ IF ~authorize({"Supervisor", "Admin"}, u)
       THEN /\ Respond(r, "reviewLeaveRequest", u, 403, id, 0)
            /\ UNCHANGED inflight
       ELSE IF status \notin {"Approved", "Rejected"}
       THEN /\ RespondMessage(r, "reviewLeaveRequest", u, 400, id,
                              "Invalid status. Must be Approved or Rejected")
            /\ UNCHANGED inflight
       ELSE IF id \notin 1..Len(leaveRequests)
       THEN /\ Respond(r, "reviewLeaveRequest", u, 404, id, 0)
            /\ UNCHANGED inflight
       ELSE /\ inflight' = [inflight EXCEPT ![r] =
                  [op |-> "reviewLeaveRequest", pc |-> "save", actor |-> u, id |-> id,
                   status |-> status, reviewComments |-> reviewComments,
                   startDate |-> leaveRequests[id].startDate,
                   endDate |-> leaveRequests[id].endDate]]
            /\ resp' = NoResp
    /\ UNCHANGED <<now, completedHours, attendance, leaveRequests, clinicalCases>>

\* PUT /api/leave-requests/:id/review, the route's authorize and lines 528-551
reviewLeaveFind(r, u, id, status, reviewComments) ==
    /\ inflight[r].op = "idle"
    /\ IF ~authorize({"Supervisor", "Admin"}, u)
       THEN /\ Respond(r, "reviewLeaveRequest", u, 403, id, 0)
            /\ UNCHANGED inflight
       ELSE IF status \notin {"Approved", "Rejected"}
       THEN /\ RespondMessage(r, "reviewLeaveRequest", u, 400, id,
                              "Invalid status. Must be Approved or Rejected")
            /\ UNCHANGED inflight
       ELSE IF id \notin 1..Len(leaveRequests)
       THEN /\ Respond(r, "reviewLeaveRequest", u, 404, id, 0)
            /\ UNCHANGED inflight
       ELSE IF leaveRequests[id].status # "Pending"
       THEN /\ RespondMessage(r, "reviewLeaveRequest", u, 400, id,
                              "This leave request has already been reviewed")
            /\ UNCHANGED inflight
       ELSE /\ inflight' = [inflight EXCEPT ![r] =
                  [op |-> "reviewLeaveRequest", pc |-> "save", actor |-> u, id |-> id,
                   status |-> status, reviewComments |-> reviewComments,
                   startDate |-> leaveRequests[id].startDate,
                   endDate |-> leaveRequests[id].endDate]]
            /\ resp' = NoResp
    /\ UNCHANGED <<now, completedHours, attendance, leaveRequests, clinicalCases>>

\* lines 553-575: status, reviewedBy, reviewedAt, reviewComments and save()
reviewLeaveSave(r) ==
    /\ inflight[r].op = "reviewLeaveRequest"
    /\ LET q == inflight[r] IN
       IF leavePreSaveRejects(q.startDate, q.endDate)
       THEN /\ Respond(r, "reviewLeaveRequest", q.actor, 500, q.id, 0)
            /\ UNCHANGED leaveRequests
       ELSE /\ leaveRequests' = [leaveRequests EXCEPT
                  ![q.id].status = q.status,
                  ![q.id].reviewedBy = q.actor,
                  ![q.id].reviewedAt = now,
                  ![q.id].reviewComments = q.reviewComments]
            /\ Respond(r, "reviewLeaveRequest", q.actor, 200, q.id, 0)
    /\ inflight' = [inflight EXCEPT ![r] = Idle]
    /\ UNCHANGED <<now, completedHours, attendance, clinicalCases>>

\* req.body.reviewComments of a review: undefined or a text
ReviewComments == {NoComments, "seen"}

\* request bodies of updateLeaveRequest: a status alone, dates, or the review fields
LeaveBodies ==
    {[status |-> st, startDate |-> NoDay, endDate |-> NoDay,
      reviewedBy |-> NoUser, reviewComments |-> NoComments] : st \in LeaveStatuses}
    \cup {[status |-> NoStatus, startDate |-> a, endDate |-> b,
           reviewedBy |-> NoUser, reviewComments |-> NoComments] :
             a \in {NoDay} \cup LeaveDays, b \in {NoDay} \cup LeaveDays}
    \cup {[status |-> NoStatus, startDate |-> NoDay, endDate |-> NoDay,
           reviewedBy |-> "a1", reviewComments |-> "forged"]}

LeaveStep(r, cap, creators, actors) ==
    \/ \E s \in creators, a \in LeaveDays, b \in LeaveDays : createLeaveCheck(r, s, a, b)
    \/ createLeaveInsert(r, cap)
    \/ \E u \in actors, id \in 1..cap, body \in LeaveBodies : updateLeaveFind(r, u, id, body)
    \/ updateLeaveOverlap(r)
    \/ updateLeaveWrite(r)
    \/ \E u \in actors, id \in 1..cap : cancelLeaveFind(r, u, id)
    \/ cancelLeaveSave(r)
    \/ \E u \in actors, id \in 1..cap, st \in {"Approved", "Rejected", "Pending"},
          c \in ReviewComments :
          reviewLeaveFind(r, u, id, st, c)
    \/ reviewLeaveSave(r)
    \/ StorageFailure(r)

\* the leave requests of one student and a supervisor, one request at a time
NextLeave == LeaveStep("r1", MaxLeaves, {"s1"}, {"s1", "p1"})

SpecLeave == Init /\ [][NextLeave]_vars

\* the life of a single leave request under every actor
NextLeaveOne == LeaveStep("r1", OneDoc, Students, Users)

SpecLeaveOne == Init /\ [][NextLeaveOne]_vars

\* request bodies of updateLeaveRequest that carry nothing but dates
LeaveDateBodies == {body \in LeaveBodies : body.status = NoStatus /\ body.reviewedBy = NoUser}

\* request bodies of updateLeaveRequest that carry nothing but a status
LeaveStatusBodies == {body \in LeaveBodies : body.status # NoStatus}

\* a student's requests and their dates: creations, updates of the dates and
\* cancellations by the student, approvals by the supervisor
NextLeaveDates ==
    \/ \E a \in LeaveDays, b \in LeaveDays : createLeaveCheck("r1", "s1", a, b)
    \/ createLeaveInsert("r1", MaxLeaves)
    \/ \E id \in 1..MaxLeaves, body \in LeaveDateBodies : updateLeaveFind("r1", "s1", id, body)
    \/ updateLeaveOverlap("r1")
    \/ updateLeaveWrite("r1")
    \/ \E id \in 1..MaxLeaves : cancelLeaveFind("r1", "s1", id)
    \/ cancelLeaveSave("r1")
    \/ \E id \in 1..MaxLeaves : reviewLeaveFind("r1", "p1", id, "Approved", NoComments)
    \/ reviewLeaveSave("r1")

SpecLeaveDates == Init /\ [][NextLeaveDates]_vars

\* the decisions on a single request: reviews and cancellations by every actor,
\* and a supervisor's updates of the status
NextLeaveDecide ==
    \/ \E a \in LeaveDays, b \in LeaveDays : createLeaveCheck("r1", "s1", a, b)
    \/ createLeaveInsert("r1", OneDoc)
    \/ \E id \in 1..OneDoc, body \in LeaveStatusBodies :
          updateLeaveFind("r1", "p1", id, body)
    \/ updateLeaveWrite("r1")
    \/ \E u \in Users, id \in 1..OneDoc : cancelLeaveFind("r1", u, id)
    \/ cancelLeaveSave("r1")
    \/ \E u \in Users, id \in 1..OneDoc, st \in {"Approved", "Rejected", "Pending"} :
          reviewLeaveFind("r1", u, id, st, "seen")
    \/ reviewLeaveSave("r1")

SpecLeaveDecide == Init /\ [][NextLeaveDecide]_vars

\* the requests of one student and the decisions of a supervisor and an admin on
\* two connections, interleaved at every await
LeaveRaceStep(r) ==
    \/ \E a \in LeaveDays, b \in LeaveDays : createLeaveCheck(r, "s1", a, b)
    \/ createLeaveInsert(r, MaxLeaves)
    \/ \E id \in 1..MaxLeaves : cancelLeaveFind(r, "s1", id)
    \/ cancelLeaveSave(r)
    \/ \E u \in {"p1", "a1"}, id \in 1..MaxLeaves, st \in {"Approved", "Rejected"} :
          reviewLeaveFind(r, u, id, st, "seen")
    \/ reviewLeaveSave(r)

NextLeaveRace == \E r \in Slots : LeaveRaceStep(r)

SpecLeaveRace == Init /\ [][NextLeaveRace]_vars

----------------------------------------------------------------------------
\* Clinical cases

CaseStatuses == {"Pending", "Approved", "Rejected", "Revision Required"}
NoFlag == "absent"      \* a boolean field that is not in the request body
NoCaseNumber == <<>>    \* caseNumber is not in the request body

\* calendar month of a timestamp (a month of the model lasts one day)
Month(t) == t \div DayLen

\* ClinicalCaseSchema.pre('save'), lines 233-238: the cases created in the month
countDocuments(month) ==
    Cardinality({i \in 1..Len(clinicalCases) : Month(clinicalCases[i].createdAt) = month})

\* POST /api/clinical-cases, lines 10-17 and the pre-save count of the month
createCaseCount(r, s, body) ==
    /\ inflight[r].op = "idle"
    /\ authorize({"Student"}, s)
    /\ inflight' = [inflight EXCEPT ![r] =
          [op |-> "createCase", pc |-> "insert", actor |-> s, body |-> body,
           month |-> Month(now), count |-> countDocuments(Month(now))]]
    /\ resp' = NoResp
    /\ UNCHANGED <<now, completedHours, attendance, leaveRequests, clinicalCases>>

\* a unique index that rejects nothing
DuplicateCaseNumberNever(caseNumber) == FALSE

\* the unique index on caseNumber
DuplicateCaseNumber(caseNumber) ==
    \E i \in 1..Len(clinicalCases) : clinicalCases[i].caseNumber = caseNumber

\* lines 17-30 and the hook's lines 229 and 239: the case number, generated only
\* when the body has none, the schema defaults and the insert
createCaseInsert(r, cap) ==
    /\ inflight[r].op = "createCase"
    /\ LET q == inflight[r]
           caseNumber == IF q.body.caseNumber # NoCaseNumber
                         THEN q.body.caseNumber ELSE <<q.month, q.count + 1>> IN
       IF DuplicateCaseNumber(caseNumber)
       THEN /\ RespondError(r, "createCase", q.actor, NoId, "E11000 duplicate key")
            /\ UNCHANGED clinicalCases
       ELSE /\ Len(clinicalCases) < cap
            /\ clinicalCases' = Append(clinicalCases,
                  [student |-> q.actor,
                   caseNumber |-> caseNumber,
                   supervisor |-> supervisorOf(q.actor),
                   status |-> IF q.body.status # NoStatus THEN q.body.status ELSE "Pending",
                   reviewedAt |-> NoTime,
                   isCompleted |-> IF q.body.isCompleted # NoFlag
                                   THEN q.body.isCompleted = "true" ELSE FALSE,
                   createdAt |-> now])
            /\ Respond(r, "createCase", q.actor, 201, Len(clinicalCases) + 1, 0)
    /\ inflight' = [inflight EXCEPT ![r] = Idle]
    /\ UNCHANGED <<now, completedHours, attendance, leaveRequests>>

\* PUT /api/clinical-cases/:id, lines 138-161: the lookup and the guards of a Student
updateCaseFindNoApprovedGuard(r, u, id, body) ==
    /\ inflight[r].op = "idle"
    /\ IF id \notin 1..Len(clinicalCases)
       THEN /\ Respond(r, "updateCase", u, 404, id, 0)
            /\ UNCHANGED inflight
       ELSE IF role(u) = "Student" /\ clinicalCases[id].student # u
       THEN /\ Respond(r, "updateCase", u, 403, id, 0)
            /\ UNCHANGED inflight
       ELSE /\ inflight' = [inflight EXCEPT ![r] =
                  [op |-> "updateCase", pc |-> "write", actor |-> u, id |-> id,
                   body |-> body]]
            /\ resp' = NoResp
    /\ UNCHANGED <<now, completedHours, attendance, leaveRequests, clinicalCases>>

updateCaseFind(r, u, id, body) ==
    /\ inflight[r].op = "idle"
    /\ IF id \notin 1..Len(clinicalCases)
       THEN /\ Respond(r, "updateCase", u, 404, id, 0)
            /\ UNCHANGED inflight
       ELSE IF role(u) = "Student" /\ clinicalCases[id].student # u
       THEN /\ Respond(r, "updateCase", u, 403, id, 0)
            /\ UNCHANGED inflight
       ELSE IF role(u) = "Student" /\ clinicalCases[id].status = "Approved"
       THEN /\ Respond(r, "updateCase", u, 400, id, 0)
            /\ UNCHANGED inflight
       ELSE /\ inflight' = [inflight EXCEPT ![r] =
                  [op |-> "updateCase", pc |-> "write", actor |-> u, id |-> id,
                   body |-> body]]
            /\ resp' = NoResp
    /\ UNCHANGED <<now, completedHours, attendance, leaveRequests, clinicalCases>>

\* findByIdAndUpdate(id, req.body): every field of the body is written
applyCaseBody(c, body) ==
    [c EXCEPT
        !.status = IF body.status # NoStatus THEN body.status ELSE @,
        !.isCompleted = IF body.isCompleted # NoFlag THEN body.isCompleted = "true" ELSE @,
        !.caseNumber = IF body.caseNumber # NoCaseNumber THEN body.caseNumber ELSE @]

\* lines 163-178: ClinicalCase.findByIdAndUpdate(req.params.id, req.body); the
\* unique index rejects a caseNumber that another case has
updateCaseWrite(r) ==
    /\ inflight[r].op = "updateCase"
    /\ LET q == inflight[r] IN
       IF /\ q.body.caseNumber # NoCaseNumber
          /\ \E i \in 1..Len(clinicalCases) :
                i # q.id /\ clinicalCases[i].caseNumber = q.body.caseNumber
       THEN /\ RespondError(r, "updateCase", q.actor, q.id, "E11000 duplicate key")
            /\ UNCHANGED clinicalCases
       ELSE /\ clinicalCases' = [clinicalCases EXCEPT ![q.id] = applyCaseBody(@, q.body)]
            /\ Respond(r, "updateCase", q.actor, 200, q.id, 0)
    /\ inflight' = [inflight EXCEPT ![r] = Idle]
    /\ UNCHANGED <<now, completedHours, attendance, leaveRequests>>

\* PUT /api/clinical-cases/:id/review
reviewCase(r, u, id, status) ==
    /\ inflight[r].op = "idle"
    /\ IF ~authorize({"Supervisor", "Admin"}, u)
       THEN /\ Respond(r, "reviewCase", u, 403, id, 0)
            /\ UNCHANGED clinicalCases
       ELSE IF status \notin {"Approved", "Rejected", "Revision Required"}
       THEN /\ Respond(r, "reviewCase", u, 400, id, 0)
            /\ UNCHANGED clinicalCases
       ELSE IF id \notin 1..Len(clinicalCases)
       THEN /\ Respond(r, "reviewCase", u, 404, id, 0)
            /\ UNCHANGED clinicalCases
       ELSE /\ clinicalCases' = [clinicalCases EXCEPT
                  ![id].status = status,
                  ![id].reviewedAt = now,
                  ![id].supervisor = u,
                  ![id].isCompleted = (status = "Approved")]
            /\ Respond(r, "reviewCase", u, 200, id, 0)
    /\ UNCHANGED <<now, completedHours, attendance, leaveRequests, inflight>>

\* PUT /api/professor/cases/:id/review
reviewClinicalCase(r, u, id, status) ==
    /\ inflight[r].op = "idle"
    /\ IF ~authorize({"Supervisor", "Admin"}, u)
       THEN /\ Respond(r, "reviewClinicalCase", u, 403, id, 0)
            /\ UNCHANGED clinicalCases
       ELSE IF status \notin {"Approved", "Rejected"}
       THEN /\ Respond(r, "reviewClinicalCase", u, 400, id, 0)
            /\ UNCHANGED clinicalCases
       ELSE IF id \notin 1..Len(clinicalCases)
       THEN /\ Respond(r, "reviewClinicalCase", u, 404, id, 0)
            /\ UNCHANGED clinicalCases
       ELSE /\ clinicalCases' = [clinicalCases EXCEPT
                  ![id].status = status,
                  ![id].reviewedAt = now,
                  ![id].supervisor = u]
            /\ Respond(r, "reviewClinicalCase", u, 200, id, 0)
    /\ UNCHANGED <<now, completedHours, attendance, leaveRequests, inflight>>

\* the filter of updateMany: {_id: {$in: caseIds}, 'supervisorApproval.status': 'Pending'}
bulkMatchesAnyStatus(caseIds) ==
    {i \in 1..Len(clinicalCases) : i \in caseIds}

bulkMatches(caseIds) ==
    {i \in 1..Len(clinicalCases) : i \in caseIds /\ clinicalCases[i].status = "Pending"}

\* PUT /api/professor/cases/bulk-review
bulkReviewCases(r, u, caseIds, status) ==
    /\ inflight[r].op = "idle"
    /\ IF ~authorize({"Supervisor", "Admin"}, u)
       THEN /\ RespondBulk(r, "bulkReviewCases", u, 403, caseIds, 0, NoStatus)
            /\ UNCHANGED clinicalCases
       ELSE IF caseIds = {}
       THEN /\ RespondBulk(r, "bulkReviewCases", u, 400, caseIds, 0, NoStatus)
            /\ UNCHANGED clinicalCases
       ELSE IF status \notin {"Approved", "Rejected"}
       THEN /\ RespondBulk(r, "bulkReviewCases", u, 400, caseIds, 0, NoStatus)
            /\ UNCHANGED clinicalCases
       ELSE /\ clinicalCases' = [i \in 1..Len(clinicalCases) |->
                  IF i \in bulkMatches(caseIds)
                  THEN [clinicalCases[i] EXCEPT
                          !.status = status, !.reviewedAt = now, !.supervisor = u]
                  ELSE clinicalCases[i]]
            /\ RespondBulk(r, "bulkReviewCases", u, 200, caseIds,
                           Cardinality(bulkMatches(caseIds)), status)
    /\ UNCHANGED <<now, completedHours, attendance, leaveRequests, inflight>>

\* request bodies of createCase and updateCase: nothing of the approval, a status,
\* or the completion flag
CaseBodies ==
    {[status |-> st, isCompleted |-> NoFlag, caseNumber |-> NoCaseNumber] :
        st \in {NoStatus} \cup CaseStatuses}
    \cup {[status |-> NoStatus, isCompleted |-> f, caseNumber |-> NoCaseNumber] :
             f \in {"true", "false"}}

EmptyCaseBody == [status |-> NoStatus, isCompleted |-> NoFlag, caseNumber |-> NoCaseNumber]

\* request bodies that carry a caseNumber: the first two numbers of the first month
CaseNumberBodies ==
    {[status |-> NoStatus, isCompleted |-> NoFlag, caseNumber |-> <<0, n>>] : n \in 1..2}

ReviewInputs == CaseStatuses

CaseStep(r, cap, creators, actors, bodies) ==
    \/ \E s \in creators, body \in bodies : createCaseCount(r, s, body)
    \/ createCaseInsert(r, cap)
    \/ \E u \in actors, id \in 1..cap, body \in bodies : updateCaseFind(r, u, id, body)
    \/ updateCaseWrite(r)
    \/ \E u \in actors, id \in 1..cap, st \in ReviewInputs : reviewCase(r, u, id, st)
    \/ \E u \in actors, id \in 1..cap, st \in ReviewInputs : reviewClinicalCase(r, u, id, st)
    \/ \E u \in actors, ids \in SUBSET (1..cap), st \in ReviewInputs :
          bulkReviewCases(r, u, ids, st)
    \/ StorageFailure(r)

\* the cases of one student under one supervisor, one request at a time
NextCase == CaseStep("r1", MaxCases, {"s1"}, {"s1", "p1"}, CaseBodies)

SpecCase == Init /\ [][NextCase]_vars

\* the same with request bodies that carry nothing of the approval
NextCaseReview == CaseStep("r1", MaxCases, {"s1"}, {"s1", "p1"}, {EmptyCaseBody})

SpecCaseReview == Init /\ [][NextCaseReview]_vars

\* the life of a single case of one student under every actor
NextCaseOne == CaseStep("r1", OneDoc, {"s1"}, Users, CaseBodies)

SpecCaseOne == Init /\ [][NextCaseOne]_vars

\* the life of a single case when request bodies may carry a caseNumber
NextCaseNumber ==
    \/ Tick
    \/ CaseStep("r1", OneDoc, {"s1"}, Users, {EmptyCaseBody} \cup CaseNumberBodies)

SpecCaseNumber == Init /\ [][NextCaseNumber]_vars

\* creations and updates of cases by two requests at a time
CaseRaceStep(r) ==
    \/ \E body \in {EmptyCaseBody} \cup CaseNumberBodies : createCaseCount(r, "s1", body)
    \/ createCaseInsert(r, MaxCases)
    \/ \E id \in 1..MaxCases, body \in CaseNumberBodies : updateCaseFind(r, "s1", id, body)
    \/ updateCaseWrite(r)

NextCaseRace == Tick \/ \E r \in Slots : CaseRaceStep(r)

SpecCaseRace == Init /\ [][NextCaseRace]_vars

\* what deleteOne leaves of a case: the ids of the model are positions, so the
\* position stays and holds no student, no number and no creation date
DeletedCase ==
    [student |-> NoUser, caseNumber |-> NoCaseNumber, supervisor |-> NoUser,
     status |-> "deleted", reviewedAt |-> NoTime, isCompleted |-> FALSE,
     createdAt |-> NoTime]

\* DELETE /api/clinical-cases/:id behind authorize('Admin'), lines 184-209
deleteCase(r, u, id) ==
    /\ inflight[r].op = "idle"
    /\ IF ~authorize({"Admin"}, u)
       THEN /\ Respond(r, "deleteCase", u, 403, id, 0)
            /\ UNCHANGED clinicalCases
       ELSE IF id \notin 1..Len(clinicalCases) \/ clinicalCases[id] = DeletedCase
       THEN /\ Respond(r, "deleteCase", u, 404, id, 0)
            /\ UNCHANGED clinicalCases
       ELSE /\ clinicalCases' = [clinicalCases EXCEPT ![id] = DeletedCase]
            /\ Respond(r, "deleteCase", u, 200, id, 0)
    /\ UNCHANGED <<now, completedHours, attendance, leaveRequests, inflight>>

\* creations without a caseNumber in the body and deletions, one request at a time
NextCaseDelete ==
    \/ Tick
    \/ createCaseCount("r1", "s1", EmptyCaseBody)
    \/ createCaseInsert("r1", MaxCases)
    \/ \E u \in Users, id \in 1..MaxCases : deleteCase("r1", u, id)

SpecCaseDelete == Init /\ [][NextCaseDelete]_vars

----------------------------------------------------------------------------
\* Claims about leave requests

SharesADay(a, b) ==
    \E d \in LeaveDays :
        /\ a.startDate <= d /\ d <= a.endDate
        /\ b.startDate <= d /\ d <= b.endDate

\* C2: no two leave requests of the same student that are both Pending or Approved
\* have overlapping inclusive date ranges, in every reachable state.
C2_NoOverlappingActiveLeaves ==
    \A i, j \in 1..Len(leaveRequests) :
        (/\ i # j
         /\ leaveRequests[i].student = leaveRequests[j].student
         /\ leaveRequests[i].status \in {"Pending", "Approved"}
         /\ leaveRequests[j].status \in {"Pending", "Approved"})
        => ~SharesADay(leaveRequests[i], leaveRequests[j])

AllowedLeaveTransitions ==
    {<<"Pending", "Approved">>, <<"Pending", "Rejected">>,
     <<"Pending", "Cancelled">>, <<"Approved", "Cancelled">>}

\* C6: the status of a leave request only ever changes along Pending -> Approved,
\* Pending -> Rejected, Pending -> Cancelled or Approved -> Cancelled.
C6_LeaveStatusTransitions ==
    [][\A i \in 1..Len(leaveRequests) :
          leaveRequests'[i].status # leaveRequests[i].status
          => <<leaveRequests[i].status, leaveRequests'[i].status>>
                \in AllowedLeaveTransitions]_vars

\* C8: a leave request becomes Approved or Rejected only in the save of a review
\* performed by a Supervisor or Admin, never by an operation of a Student.
C8_OnlyReviewersDecideLeave ==
    [][\A i \in 1..Len(leaveRequests) :
          (/\ leaveRequests'[i].status \in {"Approved", "Rejected"}
           /\ leaveRequests'[i].status # leaveRequests[i].status)
          => \E r \in Slots :
                /\ inflight[r].op = "reviewLeaveRequest"
                /\ inflight[r].id = i
                /\ inflight'[r].op = "idle"
                /\ role(inflight[r].actor) \in {"Supervisor", "Admin"}]_vars

----------------------------------------------------------------------------
\* Claims about clinical cases

\* C5: a clinical case has isCompleted = true if and only if its approval status
\* is Approved, in every reachable state.
C5_CompletedIffApproved ==
    \A i \in 1..Len(clinicalCases) :
        clinicalCases[i].isCompleted <=> (clinicalCases[i].status = "Approved")

\* this step is the successful review of a Supervisor or Admin
ReviewerStep ==
    /\ inflight' = inflight
    /\ resp'.op \in {"reviewCase", "reviewClinicalCase", "bulkReviewCases"}
    /\ resp'.status = 200
    /\ role(resp'.actor) \in {"Supervisor", "Admin"}

\* this step ends a request of a Supervisor or Admin that was in progress
ReviewerRequestEnds ==
    \E r \in Slots :
        /\ inflight[r].op # "idle"
        /\ inflight'[r].op = "idle"
        /\ role(inflight[r].actor) \in {"Supervisor", "Admin"}

\* C7: the approval status of an existing case changes only in a step of a request
\* made by a Supervisor or Admin; no operation of a Student changes it.
C7_OnlyReviewersChangeCaseStatus ==
    [][\A i \in 1..Len(clinicalCases) :
          clinicalCases'[i].status # clinicalCases[i].status
          => (ReviewerStep \/ ReviewerRequestEnds)]_vars

\* the lookup of an updateCase of slot r passed the guards in this step
UpdateCaseAccepted(r) ==
    inflight[r].op = "idle" /\ inflight'[r].op = "updateCase"

\* the write of an updateCase of slot r answers 200 in this step
UpdateCaseApplied(r) ==
    inflight[r].op = "updateCase" /\ inflight'[r].op = "idle" /\ resp'.status = 200

\* C9: updateCase on an Approved case is rejected and leaves the cases unchanged
\* when the actor is a Student; by a Supervisor or Admin it is never rejected, and
\* its write puts the fields of the body on the case.
C9_ApprovedCaseEditGuard ==
    [][   /\ (resp'.op = "updateCase" /\ role(resp'.actor) \in {"Supervisor", "Admin"})
                => resp'.status \in {200, 404, 500}
          /\ \A r \in Slots :
                (UpdateCaseAccepted(r) /\ role(inflight'[r].actor) = "Student")
                => clinicalCases[inflight'[r].id].status # "Approved"
          /\ (resp'.op = "updateCase" /\ resp'.status \in {400, 403, 404})
                => clinicalCases' = clinicalCases
          /\ \A r \in Slots :
                (/\ UpdateCaseApplied(r)
                 /\ role(inflight[r].actor) \in {"Supervisor", "Admin"}
                 /\ clinicalCases[inflight[r].id].status = "Approved")
                => LET q == inflight[r] IN
                   /\ q.body.status # NoStatus
                        => clinicalCases'[q.id].status = q.body.status
                   /\ q.body.status = NoStatus
                        => clinicalCases'[q.id].status = "Approved"
                   /\ q.body.isCompleted # NoFlag
                        => clinicalCases'[q.id].isCompleted = (q.body.isCompleted = "true")
         ]_vars

\* the owning student's updateCase of an Approved case has just been answered 400
C9_Witness ==
    /\ resp.op = "updateCase"
    /\ resp.status = 400
    /\ resp.id \in 1..Len(clinicalCases)
    /\ clinicalCases[resp.id].student = resp.actor
    /\ clinicalCases[resp.id].status = "Approved"

\* C10: a successful bulk review over N existing case ids of which M are not Pending
\* sets the requested status on exactly the N - M Pending ones, leaves every other
\* case as it was and reports modifiedCount = N - M.
C10_BulkReviewModifiesPendingOnly ==
    [][(/\ resp'.op = "bulkReviewCases"
        /\ resp'.status = 200
        /\ resp'.ids \subseteq 1..Len(clinicalCases))
       => LET ids == resp'.ids
              reviewed == {i \in ids : clinicalCases[i].status # "Pending"} IN
          /\ resp'.n = Cardinality(ids) - Cardinality(reviewed)
          /\ Len(clinicalCases') = Len(clinicalCases)
          /\ \A i \in ids \ reviewed : clinicalCases'[i].status = resp'.msg
          /\ \A i \in 1..Len(clinicalCases) :
                i \notin ids \ reviewed => clinicalCases'[i] = clinicalCases[i]]_vars

\* a bulk review over two existing cases, one of them already reviewed, has just
\* reported modifiedCount = 1
C10_Witness ==
    /\ resp.op = "bulkReviewCases"
    /\ resp.status = 200
    /\ resp.ids \subseteq 1..Len(clinicalCases)
    /\ Cardinality(resp.ids) = 2
    /\ resp.n = 1
    /\ \E i \in resp.ids : clinicalCases[i].status # resp.msg

----------------------------------------------------------------------------
\* The hours ledger on User: the administrative routes

MaxOverride == 1    \* largest completedHours an override request carries

\* completedHours of a request body: absent, or a number (negative ones included)
HoursBodies ==
    {[given |-> FALSE, completedHours |-> 0]}
    \cup {[given |-> TRUE, completedHours |-> h] : h \in (-1)..MaxOverride}

\* findByIdAndUpdate(id, {completedHours}, {runValidators: true}) on a user id;
\* min: 0 is the validator of completedHours
writeCompletedHours(r, op, u, id, body) ==
    IF id \notin Students
    THEN /\ Respond(r, op, u, 404, NoId, 0)
         /\ UNCHANGED completedHours
    ELSE IF body.given /\ body.completedHours < 0
    THEN /\ RespondError(r, op, u, NoId, "Completed hours cannot be negative")
         /\ UNCHANGED completedHours
    ELSE /\ completedHours' = [completedHours EXCEPT
                ![id] = IF body.given THEN body.completedHours ELSE @]
         /\ Respond(r, op, u, 200, NoId, 0)

\* PUT /api/users/:id without the route's authorize('Admin')
updateUserNoAuthorize(r, u, id, body) ==
    /\ inflight[r].op = "idle"
    /\ writeCompletedHours(r, "updateUser", u, id, body)
    /\ UNCHANGED <<now, attendance, leaveRequests, clinicalCases, inflight>>

\* PUT /api/users/:id, authorize('Admin')
updateUser(r, u, id, body) ==
    /\ inflight[r].op = "idle"
    /\ IF ~authorize({"Admin"}, u)
       THEN /\ Respond(r, "updateUser", u, 403, NoId, 0)
            /\ UNCHANGED completedHours
       ELSE writeCompletedHours(r, "updateUser", u, id, body)
    /\ UNCHANGED <<now, attendance, leaveRequests, clinicalCases, inflight>>

\* PUT /api/users/:id/update-hours, authorize('Admin', 'Supervisor')
updateHours(r, u, id, body) ==
    /\ inflight[r].op = "idle"
    /\ IF ~authorize({"Admin", "Supervisor"}, u)
       THEN /\ Respond(r, "updateHours", u, 403, NoId, 0)
            /\ UNCHANGED completedHours
       ELSE writeCompletedHours(r, "updateHours", u, id, body)
    /\ UNCHANGED <<now, attendance, leaveRequests, clinicalCases, inflight>>

\* PUT /api/users/profile: the caller's own profile fields; the hours counters are
\* not among them
updateProfile(r, u) ==
    /\ inflight[r].op = "idle"
    /\ Respond(r, "updateProfile", u, 200, NoId, 0)
    /\ UNCHANGED <<now, completedHours, attendance, leaveRequests, clinicalCases, inflight>>

UserIds == Students \cup {NoUser}

UserStep(r) ==
    \/ \E u \in Users, id \in UserIds, body \in HoursBodies : updateUser(r, u, id, body)
    \/ \E u \in Users, id \in UserIds, body \in HoursBodies : updateHours(r, u, id, body)
    \/ \E u \in Users : updateProfile(r, u)

\* the attendance of one student and the administrative routes under every actor,
\* one request at a time
NextHours == Tick \/ RaceStep("r1") \/ UserStep("r1")

SpecHours == Init /\ [][NextHours]_vars

\* the $inc of student s's own checkOut runs in this step
OwnCheckOutAccrues(s) ==
    \E r \in Slots :
        /\ inflight[r].op = "checkOut"
        /\ inflight[r].pc = "inc"
        /\ inflight[r].actor = s
        /\ inflight'[r].op = "idle"

\* this step is an override accepted from an Admin (updateUser, updateHours) or a
\* Supervisor (updateHours)
AdministrativeOverride ==
    /\ inflight' = inflight
    /\ resp'.status = 200
    /\ \/ resp'.op = "updateUser" /\ role(resp'.actor) = "Admin"
       \/ resp'.op = "updateHours" /\ role(resp'.actor) \in {"Admin", "Supervisor"}

\* C17: a user's completedHours changes only in that user's own checkOut or in an
\* administrative override; no other operation and no other Student changes it.
C17_CompletedHoursWriters ==
    [][\A s \in Students :
          completedHours'[s] # completedHours[s]
          => (OwnCheckOutAccrues(s) \/ AdministrativeOverride)]_vars

\* a Student's generic update of a user who has accrued hours has just been refused
C17_Witness ==
    /\ resp.op = "updateUser"
    /\ resp.status = 403
    /\ role(resp.actor) = "Student"
    /\ completedHours[resp.actor] > 0

----------------------------------------------------------------------------
\* GET /api/attendance/monthly-summary

\* the $match stage of Attendance.getMonthlySummary: the student's sessions dated
\* in the month that have a timeOut
summaryMatch(studentId, month) ==
    {i \in 1..Len(attendance) :
        /\ attendance[i].student = studentId
        /\ Month(attendance[i].date) = month
        /\ attendance[i].timeOut # NoTime}

\* the $project and $group stages over the first n documents: the sum of
\* totalMs / 3600000 - breakMinutes / 60 of the matched ones
RECURSIVE summaryHours(_, _, _)
summaryHours(studentId, month, n) ==
    IF n = 0 THEN 0
    ELSE summaryHours(studentId, month, n - 1)
         + (IF n \in summaryMatch(studentId, month)
            THEN (attendance[n].timeOut - attendance[n].timeIn) - attendance[n].breakDuration
            ELSE 0)

\* result[0] alone: with no $group document neither total is a number (-1)
monthlySummaryNoDefault(studentId, month) ==
    IF summaryMatch(studentId, month) = {}
    THEN [totalDays |-> -1, totalHours |-> -1]
    ELSE [totalDays |-> Cardinality(summaryMatch(studentId, month)),
          totalHours |-> summaryHours(studentId, month, Len(attendance))]

\* Attendance.getMonthlySummary: result[0] || {totalDays: 0, totalHours: 0}
monthlySummary(studentId, month) ==
    IF summaryMatch(studentId, month) = {}
    THEN [totalDays |-> 0, totalHours |-> 0]
    ELSE [totalDays |-> Cardinality(summaryMatch(studentId, month)),
          totalHours |-> summaryHours(studentId, month, Len(attendance))]

\* the answer of the summary route: the month asked for and the totals
RespondSummary(r, u, status, studentId, month, summary) ==
    resp' = [op |-> "getMonthlySummary", actor |-> u, status |-> status, id |-> NoId,
             ids |-> {}, n |-> 0, msg |-> "absent", student |-> studentId,
             month |-> month, totalDays |-> summary.totalDays,
             totalHours |-> summary.totalHours]

\* a Student asks for the own summary, anyone else names the student in the query
getMonthlySummary(r, u, queryStudentId, month) ==
    /\ inflight[r].op = "idle"
    /\ LET studentId == IF role(u) = "Student" THEN u ELSE queryStudentId IN
       IF studentId = NoUser
       THEN RespondSummary(r, u, 400, studentId, month, [totalDays |-> 0, totalHours |-> 0])
       ELSE RespondSummary(r, u, 200, studentId, month, monthlySummary(studentId, month))
    /\ UNCHANGED <<now, completedHours, attendance, leaveRequests, clinicalCases, inflight>>

Months == 0..(MaxTime \div DayLen)

SummaryStep(r) ==
    \E u \in Users, id \in UserIds, month \in Months : getMonthlySummary(r, u, id, month)

\* attendance and its monthly summary, one request at a time
NextSummary == Tick \/ AttendanceStep("r1") \/ SummaryStep("r1")

SpecSummary == Init /\ [][NextSummary]_vars

\* the sum of the net hours, each clamped at 0, of the sessions of a set
RECURSIVE SumNetHours(_)
SumNetHours(S) ==
    IF S = {} THEN 0
    ELSE LET i == CHOOSE j \in S : TRUE IN
         Max(0, (attendance[i].timeOut - attendance[i].timeIn) - attendance[i].breakDuration)
         + SumNetHours(S \ {i})

\* C19: the monthly summary of a student returns as totalDays the number of the
\* student's closed sessions dated in the month and as totalHours the sum of their
\* net hours, each clamped at 0; with no such session both are 0.
C19_MonthlySummaryTotals ==
    [][(resp'.op = "getMonthlySummary" /\ resp'.status = 200)
       => LET M == {i \in ClosedSessions(resp'.student) :
                       Month(attendance[i].date) = resp'.month} IN
          /\ resp'.totalDays = Cardinality(M)
          /\ resp'.totalHours = SumNetHours(M)]_vars

----------------------------------------------------------------------------
\* LeaveRequest.hasOverlappingLeave on its own

\* a call of the static method on the collection as it is; the answer keeps the
\* arguments beside the value returned
callHasOverlappingLeave(studentId, startDate, endDate, excludeId) ==
    /\ inflight["r1"].op = "idle"
    /\ resp' = [op |-> "hasOverlappingLeave", actor |-> NoUser, status |-> 0, id |-> NoId,
                ids |-> {}, n |-> 0, msg |-> "absent", student |-> studentId,
                startDate |-> startDate, endDate |-> endDate, excludeId |-> excludeId,
                result |-> hasOverlappingLeave(studentId, startDate, endDate, excludeId)]
    /\ UNCHANGED <<now, completedHours, attendance, leaveRequests, clinicalCases, inflight>>

\* the leave requests of two students, reviewed by a supervisor, and the overlap
\* query on every collection they reach
NextOverlap ==
    \/ \E s \in Students, a \in LeaveDays, b \in LeaveDays : createLeaveCheck("r1", s, a, b)
    \/ createLeaveInsert("r1", MaxLeaves)
    \/ \E id \in 1..MaxLeaves : cancelLeaveFind("r1", "s1", id)
    \/ cancelLeaveSave("r1")
    \/ \E id \in 1..MaxLeaves, st \in {"Approved", "Rejected"} :
          reviewLeaveFind("r1", "p1", id, st, NoComments)
    \/ reviewLeaveSave("r1")
    \/ \E s \in Students, a \in LeaveDays, b \in LeaveDays, x \in 0..MaxLeaves :
          callHasOverlappingLeave(s, a, b, x)

SpecOverlap == Init /\ [][NextOverlap]_vars

\* C20: hasOverlappingLeave(student, start, end, excludeId) is true if and only if
\* some request of that student other than excludeId is Pending or Approved with
\* startDate <= end and endDate >= start.
C20_HasOverlappingLeaveIff ==
    [][resp'.op = "hasOverlappingLeave"
       => (resp'.result <=>
             \E i \in 1..Len(leaveRequests) \ {resp'.excludeId} :
                /\ leaveRequests[i].student = resp'.student
                /\ leaveRequests[i].status \in {"Pending", "Approved"}
                /\ leaveRequests[i].startDate <= resp'.endDate
                /\ resp'.startDate <= leaveRequests[i].endDate)]_vars

\* the query has just answered false although a Rejected or Cancelled request of
\* the student and a Pending or Approved request of another student cover the range
C20_Witness ==
    /\ resp.op = "hasOverlappingLeave"
    /\ ~resp.result
    /\ \E i, j \in 1..Len(leaveRequests) :
          /\ leaveRequests[i].student = resp.student
          /\ leaveRequests[i].status \in {"Rejected", "Cancelled"}
          /\ leaveRequests[i].startDate <= resp.endDate
          /\ resp.startDate <= leaveRequests[i].endDate
          /\ leaveRequests[j].student # resp.student
          /\ leaveRequests[j].status \in {"Pending", "Approved"}
          /\ leaveRequests[j].startDate <= resp.endDate
          /\ resp.startDate <= leaveRequests[j].endDate

----------------------------------------------------------------------------
\* Leave requests: creation, update, cancellation and review

\* some Pending or Approved request of the student, other than request except,
\* has a day in common with the inclusive range startDate..endDate
SharesDayWithActive(s, startDate, endDate, except) ==
    \E i \in 1..Len(leaveRequests) :
        /\ i # except
        /\ leaveRequests[i].student = s
        /\ leaveRequests[i].status \in {"Pending", "Approved"}
        /\ SharesADay([startDate |-> startDate, endDate |-> endDate], leaveRequests[i])

\* C21: a createLeaveRequest whose range shares a day with a Pending or Approved
\* request of the same student is rejected: it does not go on to the insert, no
\* request is added for it, and the rejection leaves every request as it was.
C21_CreateRejectsOverlap ==
    [][/\ \A r \in Slots :
             /\ (inflight[r].op = "idle" /\ inflight'[r].op = "createLeaveRequest")
                   => ~SharesDayWithActive(inflight'[r].actor, inflight'[r].startDate,
                                           inflight'[r].endDate, NoId)
             /\ (inflight[r].op = "createLeaveRequest"
                    /\ Len(leaveRequests') > Len(leaveRequests))
                   => ~SharesDayWithActive(inflight[r].actor, inflight[r].startDate,
                                           inflight[r].endDate, NoId)
       /\ (resp' # resp /\ resp'.op = "createLeaveRequest" /\ resp'.status = 400)
             => leaveRequests' = leaveRequests]_vars

\* a creation was rejected while the student's only request is a Pending one of a
\* single day, so the rejected range meets it in exactly that day
C21_Witness ==
    /\ resp.op = "createLeaveRequest"
    /\ resp.status = 400
    /\ Len(leaveRequests) = 1
    /\ leaveRequests[1].student = resp.actor
    /\ leaveRequests[1].status = "Pending"
    /\ leaveRequests[1].startDate = leaveRequests[1].endDate

\* the range an update in flight would leave in the request
ResultingStart(q) == IF q.body.startDate # NoDay THEN q.body.startDate ELSE q.startDate
ResultingEnd(q) == IF q.body.endDate # NoDay THEN q.body.endDate ELSE q.endDate

\* some other Pending or Approved request of the student exists
OtherActiveRequest(s, except) ==
    \E i \in 1..Len(leaveRequests) :
        /\ i # except
        /\ leaveRequests[i].student = s
        /\ leaveRequests[i].status \in {"Pending", "Approved"}

\* C22: an updateLeaveRequest that carries startDate or endDate runs the overlap
\* check on the resulting range before it writes; it writes only when no other
\* Pending or Approved request of the student shares a day with that range; a
\* rejection by the check leaves every request as it was and is caused by another
\* active request of the student, never by the request's own previous range.
C22_UpdateChecksOverlap ==
    [][\A r \in Slots :
          /\ (inflight[r].op = "idle" /\ inflight'[r].op = "updateLeaveRequest"
                 /\ inflight'[r].pc = "write")
                => (inflight'[r].body.startDate = NoDay /\ inflight'[r].body.endDate = NoDay)
          /\ (inflight[r].op = "updateLeaveRequest"
                 /\ (inflight[r].body.startDate # NoDay \/ inflight[r].body.endDate # NoDay)
                 /\ leaveRequests' # leaveRequests)
                => /\ inflight[r].pc = "write"
                   /\ ~SharesDayWithActive(inflight[r].student, ResultingStart(inflight[r]),
                                           ResultingEnd(inflight[r]), inflight[r].id)
          /\ (inflight[r].op = "updateLeaveRequest" /\ inflight[r].pc = "overlap"
                 /\ inflight'[r].op = "updateLeaveRequest")
                => ~SharesDayWithActive(inflight[r].student, ResultingStart(inflight[r]),
                                        ResultingEnd(inflight[r]), inflight[r].id)
          /\ (inflight[r].op = "updateLeaveRequest" /\ inflight[r].pc = "overlap"
                 /\ inflight'[r].op = "idle" /\ resp'.status = 400)
                => /\ leaveRequests' = leaveRequests
                   /\ OtherActiveRequest(inflight[r].student, inflight[r].id)]_vars

\* an update of the dates of one of two active requests of a student was rejected
C22_Witness ==
    /\ resp.op = "updateLeaveRequest"
    /\ resp.status = 400
    /\ Len(leaveRequests) = 2
    /\ \A i \in 1..2 : /\ leaveRequests[i].student = "s1"
                        /\ leaveRequests[i].status \in {"Pending", "Approved"}
    /\ resp.actor = "s1"
    /\ leaveRequests[resp.id].status = "Pending"

\* C23: every persisted leave request has endDate >= startDate, after any sequence
\* of creations and updates.
C23_EndNotBeforeStart ==
    \A i \in 1..Len(leaveRequests) :
        leaveRequests[i].endDate >= leaveRequests[i].startDate

\* C24: a reviewLeaveRequest on a request whose status is not Pending fails, as
\* already reviewed when a reviewer sent a valid decision, and leaves status,
\* reviewedBy, reviewedAt and reviewComments as they were; a review writes only a
\* request that is Pending.
C24_ReviewOnlyPending ==
    [][\A r \in Slots :
          /\ (/\ inflight[r].op = "idle"
              /\ resp'.op = "reviewLeaveRequest"
              /\ resp'.id \in 1..Len(leaveRequests)
              /\ leaveRequests[resp'.id].status # "Pending")
                => /\ resp'.status \in {400, 403}
                   /\ leaveRequests' = leaveRequests
                   /\ inflight'[r].op = "idle"
                   /\ resp'.status = 400
                         => resp'.msg \in {"This leave request has already been reviewed",
                                           "Invalid status. Must be Approved or Rejected"}
          /\ (inflight[r].op = "idle" /\ inflight'[r].op = "reviewLeaveRequest")
                => leaveRequests[inflight'[r].id].status = "Pending"
          /\ (inflight[r].op = "reviewLeaveRequest" /\ leaveRequests' # leaveRequests)
                => leaveRequests[inflight[r].id].status = "Pending"]_vars

\* a reviewer's valid decision on an Approved, Rejected or Cancelled request was
\* answered as already reviewed
C24_Witness ==
    /\ resp.op = "reviewLeaveRequest"
    /\ resp.status = 400
    /\ resp.msg = "This leave request has already been reviewed"
    /\ role(resp.actor) = "Supervisor"
    /\ leaveRequests[resp.id].status = "Approved"
    /\ leaveRequests[resp.id].reviewedBy = "p1"

\* C25: cancelLeaveRequest goes on to write Cancelled only when the request is
\* Pending or Approved; on a Rejected or Cancelled request it fails and leaves
\* every request as it was.
C25_CancelOnlyPendingOrApproved ==
    [][\A r \in Slots :
          /\ (/\ inflight[r].op = "idle"
              /\ resp'.op = "cancelLeaveRequest"
              /\ resp'.id \in 1..Len(leaveRequests)
              /\ leaveRequests[resp'.id].status \in {"Rejected", "Cancelled"})
                => /\ resp'.status \in {400, 403}
                   /\ leaveRequests' = leaveRequests
                   /\ inflight'[r].op = "idle"
          /\ (inflight[r].op = "idle" /\ inflight'[r].op = "cancelLeaveRequest")
                => leaveRequests[inflight'[r].id].status \in {"Pending", "Approved"}
          /\ (inflight[r].op = "cancelLeaveRequest" /\ leaveRequests' # leaveRequests)
                => /\ leaveRequests[inflight[r].id].status \in {"Pending", "Approved"}
                   /\ leaveRequests'[inflight[r].id].status = "Cancelled"
                   /\ resp'.status = 200]_vars

\* the owner's cancellation of a Rejected request was refused
C25_Witness ==
    /\ resp.op = "cancelLeaveRequest"
    /\ resp.status = 400
    /\ resp.msg = "Cannot cancel this leave request"
    /\ leaveRequests[resp.id].student = resp.actor
    /\ leaveRequests[resp.id].status = "Rejected"

\* C26: a cancelLeaveRequest moves a request to Cancelled only when the actor is
\* the student who owns it or an Admin; a cancellation by another Student or by a
\* Supervisor changes nothing.
C26_OnlyOwnerOrAdminCancels ==
    [][\A r \in Slots :
          (inflight[r].op = "cancelLeaveRequest" /\ leaveRequests' # leaveRequests)
          => \/ inflight[r].actor = leaveRequests[inflight[r].id].student
             \/ role(inflight[r].actor) = "Admin"]_vars

\* C27: a Pending leave request has reviewedBy, reviewedAt and reviewComments
\* unset; the three fields are written only by the review that moves the request
\* out of Pending, and reviewedBy is then the reviewing actor.
C27_ReviewFieldsOnlyByReview ==
    [][\A i \in 1..Len(leaveRequests') :
          /\ leaveRequests'[i].status = "Pending"
                => /\ leaveRequests'[i].reviewedBy = NoUser
                   /\ leaveRequests'[i].reviewedAt = NoTime
                   /\ leaveRequests'[i].reviewComments = NoComments
          /\ (/\ i <= Len(leaveRequests)
              /\ \/ leaveRequests'[i].reviewedBy # leaveRequests[i].reviewedBy
                 \/ leaveRequests'[i].reviewedAt # leaveRequests[i].reviewedAt
                 \/ leaveRequests'[i].reviewComments # leaveRequests[i].reviewComments)
                => \E r \in Slots :
                      /\ inflight[r].op = "reviewLeaveRequest"
                      /\ inflight[r].id = i
                      /\ leaveRequests[i].status = "Pending"
                      /\ leaveRequests'[i].status # "Pending"
                      /\ leaveRequests'[i].reviewedBy = inflight[r].actor]_vars

----------------------------------------------------------------------------
\* Clinical cases: case numbers and the state of a new case

\* C28: the caseNumber of a case never changes after its creation, under
\* updateCase, review and bulk review by any actor.
C28_CaseNumberImmutable ==
    [][\A i \in 1..Len(clinicalCases) :
          clinicalCases'[i].caseNumber = clinicalCases[i].caseNumber]_vars

\* C29: no two clinical cases have the same caseNumber, also when two creations
\* of the same month read the same count.
C29_CaseNumbersUnique ==
    \A i, j \in 1..Len(clinicalCases) :
        i # j => clinicalCases[i].caseNumber # clinicalCases[j].caseNumber

\* two creations of the same month have read the same count: the first has
\* inserted its case and was answered, the second still holds the count it read
C29_Witness ==
    /\ Len(clinicalCases) = 1
    /\ resp.op = "createCase"
    /\ resp.status = 201
    /\ \E r \in Slots :
          /\ inflight[r].op = "createCase"
          /\ inflight[r].body.caseNumber = NoCaseNumber
          /\ clinicalCases[1].caseNumber = <<inflight[r].month, inflight[r].count + 1>>

\* C30: every case that createCase produces starts with supervisorApproval.status
\* Pending and isCompleted false, whatever the body of the request carries.
C30_NewCaseStartsPending ==
    [][Len(clinicalCases') > Len(clinicalCases)
          => /\ clinicalCases'[Len(clinicalCases')].status = "Pending"
             /\ clinicalCases'[Len(clinicalCases')].isCompleted = FALSE]_vars

\* C31: a case that is Rejected or Revision Required stays editable by its owner
\* and reviewable: the owning student's updateCase is not refused and its write
\* leaves the approval status as it was, and a reviewCase by a Supervisor or Admin
\* is refused only for an invalid status and otherwise stores a reviewed status.
C31_ReturnedCaseEditableAndReviewable ==
    [][\A r \in Slots :
          /\ (/\ inflight[r].op = "idle" /\ inflight'[r].op = "idle"
              /\ resp'.op = "updateCase"
              /\ resp'.id \in 1..Len(clinicalCases)
              /\ clinicalCases[resp'.id].student = resp'.actor
              /\ clinicalCases[resp'.id].status \in {"Rejected", "Revision Required"})
                => resp'.status \notin {400, 403, 404}
          /\ (/\ UpdateCaseApplied(r)
              /\ clinicalCases[inflight[r].id].student = inflight[r].actor
              /\ clinicalCases[inflight[r].id].status \in {"Rejected", "Revision Required"})
                => clinicalCases'[inflight[r].id].status = clinicalCases[inflight[r].id].status
          /\ (/\ inflight[r].op = "idle" /\ inflight'[r].op = "idle"
              /\ resp'.op = "reviewCase"
              /\ role(resp'.actor) \in {"Supervisor", "Admin"}
              /\ resp'.id \in 1..Len(clinicalCases)
              /\ clinicalCases[resp'.id].status \in {"Rejected", "Revision Required"})
                => /\ resp'.status \in {200, 400}
                   /\ resp'.status = 200
                         => clinicalCases'[resp'.id].status
                               \in {"Approved", "Rejected", "Revision Required"}]_vars

----------------------------------------------------------------------------
\* Attendance: closed sessions, error answers and sessions left open

\* C32: once a session is closed, no step changes any of its fields other than
\* supervisorVerified and verifiedAt.
C32_ClosedSessionFrozen ==
    [][\A i \in 1..Len(attendance) :
          attendance[i].timeOut # NoTime
          => attendance'[i] = [attendance[i] EXCEPT
                                  !.supervisorVerified = attendance'[i].supervisorVerified,
                                  !.verifiedAt = attendance'[i].verifiedAt]]_vars

----------------------------------------------------------------------------
\* Read operations: today's status, lists, statistics and dashboards

ReadOps ==
    {"getTodayStatus", "getMonthlySummary", "getAttendance", "getCases",
     "getLeaveRequests", "getWeeklyStatistics", "getMonthlyReport",
     "getDashboardStats", "getProfessorDashboard"}

\* the answer of a read: the studentId of the query string, the student the
\* query was scoped to (NoUser: every student) and the data returned
RespondData(r, op, actor, status, query, student, data) ==
    resp' = [op |-> op, actor |-> actor, status |-> status, id |-> NoId, ids |-> {},
             n |-> 0, msg |-> "absent", query |-> query, student |-> student,
             data |-> data]

\* the body of an answer that carries no data
NoData == [success |-> FALSE]

\* the scope taken from the query string for every role
scopeOfQuery(u, queryStudentId) == queryStudentId

\* req.user.role === 'Student' ? req.user.id : req.query.studentId
scopeOf(u, queryStudentId) == IF role(u) = "Student" THEN u ELSE queryStudentId

\* the filter {student: scope}, or no filter on the student
inScope(doc, scope) == scope = NoUser \/ doc.student = scope

\* GET /api/attendance/today: the open session of today, else the latest of today
getTodayStatus(r, u) ==
    /\ inflight[r].op = "idle"
    /\ LET today == Today(now)
           active == ActiveSessions(u, today)
           ofToday == {i \in 1..Len(attendance) :
                         /\ attendance[i].student = u
                         /\ attendance[i].date >= today
                         /\ attendance[i].date < today + DayLen}
           found == IF active # {} THEN FirstOf(active)
                    ELSE IF ofToday # {}
                    THEN CHOOSE i \in ofToday : \A j \in ofToday : j <= i
                    ELSE NoId IN
       RespondData(r, "getTodayStatus", u, 200, NoUser, u,
          [isCheckedIn |-> found # NoId,
           isCheckedOut |-> (found # NoId /\ attendance[found].timeOut # NoTime),
           attendance |-> found])
    /\ UNCHANGED <<now, completedHours, attendance, leaveRequests, clinicalCases, inflight>>

\* GET /api/attendance: the sessions of the scope and their number
getAttendance(r, u, queryStudentId) ==
    /\ inflight[r].op = "idle"
    /\ LET scope == scopeOf(u, queryStudentId)
           found == {i \in 1..Len(attendance) : inScope(attendance[i], scope)} IN
       RespondData(r, "getAttendance", u, 200, queryStudentId, scope,
          [found |-> found, total |-> Cardinality(found)])
    /\ UNCHANGED <<now, completedHours, attendance, leaveRequests, clinicalCases, inflight>>

\* GET /api/clinical-cases: a Student's own cases, every case for the others
getCases(r, u) ==
    /\ inflight[r].op = "idle"
    /\ LET scope == IF role(u) = "Student" THEN u ELSE NoUser
           found == {i \in 1..Len(clinicalCases) : inScope(clinicalCases[i], scope)} IN
       RespondData(r, "getCases", u, 200, NoUser, scope,
          [found |-> found, total |-> Cardinality(found)])
    /\ UNCHANGED <<now, completedHours, attendance, leaveRequests, clinicalCases, inflight>>

\* GET /api/leave-requests: a Student's own requests, every request for the others
getLeaveRequests(r, u) ==
    /\ inflight[r].op = "idle"
    /\ LET scope == IF role(u) = "Student" THEN u ELSE NoUser
           found == {i \in 1..Len(leaveRequests) : inScope(leaveRequests[i], scope)} IN
       RespondData(r, "getLeaveRequests", u, 200, NoUser, scope,
          [found |-> found, total |-> Cardinality(found)])
    /\ UNCHANGED <<now, completedHours, attendance, leaveRequests, clinicalCases, inflight>>

\* the cases of a set that have the status
withStatus(S, status) == Cardinality({i \in S : clinicalCases[i].status = status})

\* getWeeklyStatistics: overallSummary[0] || {totalCases: 0, ...}; the cases of the
\* model carry no sessionDate, all of them lie in the period asked for
weeklySummary(scope) ==
    LET matched == {i \in 1..Len(clinicalCases) : inScope(clinicalCases[i], scope)} IN
    IF matched = {}
    THEN [totalCases |-> 0, approvedCases |-> 0, pendingCases |-> 0]
    ELSE [totalCases |-> Cardinality(matched),
          approvedCases |-> withStatus(matched, "Approved"),
          pendingCases |-> withStatus(matched, "Pending")]

\* GET /api/statistics/weekly
getWeeklyStatistics(r, u, queryStudentId) ==
    /\ inflight[r].op = "idle"
    /\ RespondData(r, "getWeeklyStatistics", u, 200, queryStudentId,
          scopeOf(u, queryStudentId), weeklySummary(scopeOf(u, queryStudentId)))
    /\ UNCHANGED <<now, completedHours, attendance, leaveRequests, clinicalCases, inflight>>

\* getMonthlyReport: monthlyStats[0]?.summary[0] || {totalCases: 0, approvedCases: 0}
monthlyReportSummary(scope) ==
    LET matched == {i \in 1..Len(clinicalCases) : inScope(clinicalCases[i], scope)} IN
    IF matched = {}
    THEN [totalCases |-> 0, approvedCases |-> 0]
    ELSE [totalCases |-> Cardinality(matched),
          approvedCases |-> withStatus(matched, "Approved")]

\* GET /api/statistics/monthly
getMonthlyReport(r, u, queryStudentId) ==
    /\ inflight[r].op = "idle"
    /\ RespondData(r, "getMonthlyReport", u, 200, queryStudentId,
          scopeOf(u, queryStudentId), monthlyReportSummary(scopeOf(u, queryStudentId)))
    /\ UNCHANGED <<now, completedHours, attendance, leaveRequests, clinicalCases, inflight>>

\* GET /api/statistics/dashboard: the student's part when a student is named, the
\* global part for a Supervisor or Admin; a count that is missing is 0
getDashboardStats(r, u, queryStudentId) ==
    /\ inflight[r].op = "idle"
    /\ LET studentId == scopeOf(u, queryStudentId)
           own == {i \in 1..Len(clinicalCases) : clinicalCases[i].student = studentId}
           all == 1..Len(clinicalCases)
           global == role(u) \in {"Admin", "Supervisor"} IN
       IF studentId = NoUser /\ role(u) # "Admin"
       THEN RespondData(r, "getDashboardStats", u, 400, queryStudentId, studentId, NoData)
       ELSE RespondData(r, "getDashboardStats", u, 200, queryStudentId, studentId,
               [total |-> IF studentId # NoUser THEN Cardinality(own) ELSE 0,
                pending |-> IF studentId # NoUser THEN withStatus(own, "Pending") ELSE 0,
                daysThisMonth |-> IF studentId # NoUser
                                  THEN monthlySummary(studentId, Month(now)).totalDays ELSE 0,
                hoursThisMonth |-> IF studentId # NoUser
                                   THEN monthlySummary(studentId, Month(now)).totalHours ELSE 0,
                pendingReviews |-> IF global THEN withStatus(all, "Pending") ELSE 0])
    /\ UNCHANGED <<now, completedHours, attendance, leaveRequests, clinicalCases, inflight>>

\* the $sum of completedHours over the students of a set
RECURSIVE sumCompletedHours(_)
sumCompletedHours(S) ==
    IF S = {} THEN 0
    ELSE LET s == CHOOSE x \in S : TRUE IN completedHours[s] + sumCompletedHours(S \ {s})

\* the leave requests that have the status
leavesWithStatus(status) ==
    Cardinality({i \in 1..Len(leaveRequests) : leaveRequests[i].status = status})

\* GET /api/professor/dashboard, behind the router's authorize
getProfessorDashboard(r, u) ==
    /\ inflight[r].op = "idle"
    /\ IF ~authorize({"Supervisor", "Admin"}, u)
       THEN RespondData(r, "getProfessorDashboard", u, 403, NoUser, NoUser, NoData)
       ELSE RespondData(r, "getProfessorDashboard", u, 200, NoUser, NoUser,
               [students |-> Cardinality(Students),
                casesTotal |-> Len(clinicalCases),
                casesPending |-> withStatus(1..Len(clinicalCases), "Pending"),
                casesApproved |-> withStatus(1..Len(clinicalCases), "Approved"),
                casesRejected |-> withStatus(1..Len(clinicalCases), "Rejected"),
                leavesTotal |-> Len(leaveRequests),
                leavesPending |-> leavesWithStatus("Pending"),
                leavesApproved |-> leavesWithStatus("Approved"),
                leavesRejected |-> leavesWithStatus("Rejected"),
                totalCompletedHours |-> sumCompletedHours(Students)])
    /\ UNCHANGED <<now, completedHours, attendance, leaveRequests, clinicalCases, inflight>>

ReadStep(r, readers) ==
    \/ \E u \in readers : getTodayStatus(r, u)
    \/ \E u \in readers, id \in UserIds : getMonthlySummary(r, u, id, Month(now))
    \/ \E u \in readers, id \in UserIds : getAttendance(r, u, id)
    \/ \E u \in readers : getCases(r, u)
    \/ \E u \in readers : getLeaveRequests(r, u)
    \/ \E u \in readers, id \in UserIds : getWeeklyStatistics(r, u, id)
    \/ \E u \in readers, id \in UserIds : getMonthlyReport(r, u, id)
    \/ \E u \in readers, id \in UserIds : getDashboardStats(r, u, id)
    \/ \E u \in readers : getProfessorDashboard(r, u)

\* the sessions and a leave request of one student, a case of either student, and
\* the reads of that student, the supervisor and the admin, one request at a time
NextReads ==
    \/ Tick
    \/ checkInFind("r1", "s1")
    \/ checkInCreate("r1")
    \/ checkOutFind("r1", "s1", 0)
    \/ checkOutSave("r1")
    \/ checkOutInc("r1")
    \/ \E s \in Students : createCaseCount("r1", s, EmptyCaseBody)
    \/ createCaseInsert("r1", OneDoc)
    \/ reviewCase("r1", "p1", OneDoc, "Approved")
    \/ createLeaveCheck("r1", "s1", MaxDay, MaxDay)
    \/ createLeaveInsert("r1", OneDoc)
    \/ ReadStep("r1", {"s1", "p1", "a1"})

SpecReads == Init /\ [][NextReads]_vars

----------------------------------------------------------------------------
\* Claims about the read operations

\* the records of one student
OwnSessions(s) == {i \in 1..Len(attendance) : attendance[i].student = s}
OwnCases(s) == {i \in 1..Len(clinicalCases) : clinicalCases[i].student = s}
OwnLeaves(s) == {i \in 1..Len(leaveRequests) : leaveRequests[i].student = s}

\* the sessions of a student dated on the day of the clock
OwnSessionsToday(s) ==
    {i \in OwnSessions(s) : attendance[i].date = Today(now)}

\* the closed sessions of a student dated in a month
OwnClosedInMonth(s, month) ==
    {i \in ClosedSessions(s) : Month(attendance[i].date) = month}

\* the sum of timeOut - timeIn - breakDuration over the sessions of a set
RECURSIVE OwnHours(_)
OwnHours(S) ==
    IF S = {} THEN 0
    ELSE LET i == CHOOSE j \in S : TRUE IN
         (attendance[i].timeOut - attendance[i].timeIn) - attendance[i].breakDuration
         + OwnHours(S \ {i})

\* the cases of a student that have the status
OwnCasesWithStatus(s, status) ==
    Cardinality({i \in OwnCases(s) : clinicalCases[i].status = status})

\* a read of a Student is answered in this step
StudentReadAnswered ==
    /\ resp' # resp
    /\ resp'.op \in ReadOps
    /\ role(resp'.actor) = "Student"

\* C33: what a Student gets from the weekly, monthly and dashboard statistics, the
\* monthly attendance summary, today's status and the case, leave and attendance
\* lists is computed from that student's own records alone: the records of another
\* student and a studentId in the query string have no part in it.
C33_StudentReadsOwnRecordsOnly ==
    [][StudentReadAnswered
       => LET s == resp'.actor
              op == resp'.op IN
          /\ op # "getProfessorDashboard" => (resp'.status = 200 /\ resp'.student = s)
          /\ op = "getProfessorDashboard" => (resp'.status = 403 /\ resp'.data = NoData)
          /\ op = "getTodayStatus"
             => /\ resp'.data.attendance \in OwnSessionsToday(s) \cup {NoId}
                /\ resp'.data.isCheckedIn = (OwnSessionsToday(s) # {})
                /\ resp'.data.isCheckedOut
                   => \E i \in OwnSessionsToday(s) : attendance[i].timeOut # NoTime
          /\ op = "getMonthlySummary"
             => /\ resp'.totalDays = Cardinality(OwnClosedInMonth(s, resp'.month))
                /\ resp'.totalHours = OwnHours(OwnClosedInMonth(s, resp'.month))
          /\ op = "getAttendance"
             => resp'.data = [found |-> OwnSessions(s),
                              total |-> Cardinality(OwnSessions(s))]
          /\ op = "getCases"
             => resp'.data = [found |-> OwnCases(s), total |-> Cardinality(OwnCases(s))]
          /\ op = "getLeaveRequests"
             => resp'.data = [found |-> OwnLeaves(s), total |-> Cardinality(OwnLeaves(s))]
          /\ op = "getWeeklyStatistics"
             => resp'.data = [totalCases |-> Cardinality(OwnCases(s)),
                              approvedCases |-> OwnCasesWithStatus(s, "Approved"),
                              pendingCases |-> OwnCasesWithStatus(s, "Pending")]
          /\ op = "getMonthlyReport"
             => resp'.data = [totalCases |-> Cardinality(OwnCases(s)),
                              approvedCases |-> OwnCasesWithStatus(s, "Approved")]
          /\ op = "getDashboardStats"
             => resp'.data =
                   [total |-> Cardinality(OwnCases(s)),
                    pending |-> OwnCasesWithStatus(s, "Pending"),
                    daysThisMonth |-> Cardinality(OwnClosedInMonth(s, Month(now))),
                    hoursThisMonth |-> OwnHours(OwnClosedInMonth(s, Month(now))),
                    pendingReviews |-> 0]]_vars

\* a Student who names the other student in the query string is answered with the
\* own statistics, none, while the other student has a case
C33_Witness ==
    /\ resp.op = "getWeeklyStatistics"
    /\ resp.actor = "s1"
    /\ resp.query = "s2"
    /\ resp.status = 200
    /\ resp.data.totalCases = 0
    /\ OwnCases("s2") # {}

\* the cases a read scoped to a student, or to every student, looks at
ScopedCases(scope) == {i \in 1..Len(clinicalCases) : inScope(clinicalCases[i], scope)}

\* C34: todayStatus, the monthly summary, the weekly statistics, the monthly
\* report and the student and professor dashboards leave the users, sessions,
\* cases and leave requests as they are; they never answer 500, and over an empty
\* result set they answer 200 with zero-valued defaults.
C34_ReadsChangeNothingAndDefaultToZero ==
    [][resp'.op \in ReadOps
       => /\ UNCHANGED <<completedHours, attendance, leaveRequests, clinicalCases>>
          /\ resp'.status \in {200, 400, 403}
          /\ (resp' # resp /\ resp'.status = 200)
             => LET op == resp'.op IN
                /\ (op = "getTodayStatus" /\ OwnSessionsToday(resp'.actor) = {})
                   => resp'.data = [isCheckedIn |-> FALSE, isCheckedOut |-> FALSE,
                                    attendance |-> NoId]
                /\ (op = "getMonthlySummary"
                       /\ OwnClosedInMonth(resp'.student, resp'.month) = {})
                   => (resp'.totalDays = 0 /\ resp'.totalHours = 0)
                /\ (op = "getWeeklyStatistics" /\ ScopedCases(resp'.student) = {})
                   => resp'.data = [totalCases |-> 0, approvedCases |-> 0,
                                    pendingCases |-> 0]
                /\ (op = "getMonthlyReport" /\ ScopedCases(resp'.student) = {})
                   => resp'.data = [totalCases |-> 0, approvedCases |-> 0]
                /\ (op = "getDashboardStats" /\ clinicalCases = <<>>
                       /\ \A s \in Students : OwnClosedInMonth(s, Month(now)) = {})
                   => resp'.data = [total |-> 0, pending |-> 0, daysThisMonth |-> 0,
                                    hoursThisMonth |-> 0, pendingReviews |-> 0]
                /\ (op = "getProfessorDashboard" /\ clinicalCases = <<>>
                       /\ leaveRequests = <<>>)
                   => /\ resp'.data.casesTotal = 0
                      /\ resp'.data.casesPending = 0
                      /\ resp'.data.casesApproved = 0
                      /\ resp'.data.casesRejected = 0
                      /\ resp'.data.leavesTotal = 0
                      /\ resp'.data.leavesPending = 0
                      /\ resp'.data.leavesApproved = 0
                      /\ resp'.data.leavesRejected = 0]_vars

\* the monthly summary of a student without a session is answered 200 with zeros
\* while the other collections hold records
C34_Witness ==
    /\ resp.op = "getMonthlySummary"
    /\ resp.status = 200
    /\ resp.student = "s2"
    /\ OwnSessions("s2") = {}
    /\ resp.totalDays = 0
    /\ resp.totalHours = 0
    /\ clinicalCases # <<>>
    /\ leaveRequests # <<>>

----------------------------------------------------------------------------
\* Claims about case numbers under deletion

\* C35: the number the pre-save hook gives a new case, the count of the month
\* plus one, is strictly greater than the sequence number of every existing case
\* of that month, after any sequence of creations and deletions.
C35_NewNumberAboveExisting ==
    [][\A r \in Slots :
          (/\ inflight[r].op = "createCase"
           /\ inflight'[r].op = "idle"
           /\ inflight[r].body.caseNumber = NoCaseNumber)
          => \A i \in 1..Len(clinicalCases) :
                (/\ clinicalCases[i].caseNumber # NoCaseNumber
                 /\ clinicalCases[i].caseNumber[1] = inflight[r].month)
                => clinicalCases[i].caseNumber[2] < inflight[r].count + 1]_vars

----------------------------------------------------------------------------
\* Claims about a second check-in of the day and about sessions left open

\* C36: a checkIn by a student who has already checked in and out on the same
\* calendar day is answered as a conflict (400); a 500 is answered only when the
\* database call itself fails, never for the second check-in as such.
C36_SecondCheckInIsConflict ==
    [][\A r \in Slots :
          (/\ inflight[r].op = "checkIn"
           /\ inflight'[r].op = "idle"
           /\ \E i \in ClosedSessions(inflight[r].actor) :
                 attendance[i].date = inflight[r].today)
          => \/ resp'.status = 400
             \/ (resp'.status = 500 /\ resp'.msg # "E11000 duplicate key")]_vars

\* C37: an open session can always be closed: in no reachable state, the day
\* after the check-in included, is a checkOut answered 404 while the student has
\* a session whose timeOut is null.
C37_OpenSessionCanBeClosed ==
    (resp.op = "checkOut" /\ resp.status = 404) => OpenSessions(resp.actor) = {}

----------------------------------------------------------------------------
\* Claims about leave requests handled two at a time

\* the save of a review or of a cancellation of slot r answers 200 in this step
DecisionApplied(r, op) ==
    /\ inflight[r].op = op
    /\ inflight'[r].op = "idle"
    /\ resp'.op = op
    /\ resp'.status = 200

\* C38: a leave request is decided at most once, also when two reviews, or a
\* review and a cancellation, of the same Pending request are interleaved: a
\* review that succeeds decides a request that is still Pending, and a
\* cancellation that succeeds cancels a request that is not yet Rejected or
\* Cancelled; the request that comes second is rejected.
C38_DecidedAtMostOnce ==
    [][\A r \in Slots :
          /\ DecisionApplied(r, "reviewLeaveRequest")
                => leaveRequests[inflight[r].id].status = "Pending"
          /\ DecisionApplied(r, "cancelLeaveRequest")
                => leaveRequests[inflight[r].id].status \in {"Pending", "Approved"}]_vars

\* C39: two concurrent createLeaveRequest calls of one student with overlapping
\* ranges do not both succeed: the request a creation adds shares no day with a
\* Pending or Approved request the student has at that moment.
C39_ConcurrentCreatesDoNotOverlap ==
    [][\A r \in Slots :
          (/\ inflight[r].op = "createLeaveRequest"
           /\ inflight'[r].op = "idle"
           /\ resp'.op = "createLeaveRequest"
           /\ resp'.status = 201)
          => \A i \in 1..Len(leaveRequests) :
                (/\ leaveRequests[i].student = inflight[r].actor
                 /\ leaveRequests[i].status \in {"Pending", "Approved"})
                => ~SharesADay(leaveRequests[i],
                               [startDate |-> inflight[r].startDate,
                                endDate |-> inflight[r].endDate])]_vars

============================================================================
